---- MODULE Spec2Model ----
(***************************************************************************)
(* Batched hypothesis accumulators of the RNNT decoders                    *)
(* (nemo/collections/asr/parts/utils/rnnt_utils.py): BatchedHyps (greedy   *)
(* buffer), batched_hyps_to_hypotheses (materializer) and BeamBatchedHyps  *)
(* (beam buffer).                                                          *)
(*                                                                         *)
(* Tensors are functions over 0-based index ranges, as in the source.      *)
(* A buffer object is a record whose fields carry the source's attribute   *)
(* names.  Each method is an operator from the object (and the call's      *)
(* arguments) to the object after the call; the actions apply them.        *)
(***************************************************************************)
EXTENDS Integers, Sequences, FiniteSets, TLC

\* ------------------------------------------------------------------------
\* Bounds of the model
\* ------------------------------------------------------------------------
\* total number of entries appended to a greedy buffer since construction/clear
MaxTotal == 4

\* self.batch_size: the batch size the buffers are constructed with
BatchSize == 2
\* init_length values a buffer is constructed with
InitLengths == {1, 2}

Items == 0..(BatchSize - 1)
\* non-blank label ids passed to the greedy appends
Labels == {3, 5}
\* frame indices passed to the greedy appends
Times == {0, 2}
\* score increments passed to the greedy appends
ScoreIncs == {-1}

\* ------------------------------------------------------------------------
\* Tensor helpers (torch semantics used by the source)
\* ------------------------------------------------------------------------
Width(row) == Cardinality(DOMAIN row)

Range(s) == {s[p] : p \in DOMAIN s}

Max(S) == CHOOSE x \in S : \A y \in S : y <= x

Min(S) == CHOOSE x \in S : \A y \in S : x <= y

\* torch.zeros(n)
Zeros(n) == [i \in 0..(n - 1) |-> 0]

\* torch.full((n,), v)
Full(n, v) == [i \in 0..(n - 1) |-> v]

\* torch.cat((row, torch.full_like(row, v)), dim=-1)
CatFill(row, v) ==
    LET n == Width(row)
    IN  [i \in 0..(2 * n - 1) |-> IF i < n THEN row[i] ELSE v]

\* a slice that forgets its end
SliceWhole(row, n) == [i \in 1..Width(row) |-> row[i - 1]]

\* row[:n] as a list (a slice stops at the end of the tensor)
Slice(row, n) ==
    LET m == IF n < Width(row) THEN n ELSE Width(row)
    IN  [i \in 1..m |-> row[i - 1]]

\* an index tensor is valid for a dimension of size n when -n <= i < n
InRange(i, n) == i >= -n /\ i < n

\* negative indices count from the end
Wrap(i, n) == IF i < 0 THEN i + n ELSE i

\* ascending list of the elements of a set of integers
RECURSIVE SetToSeq(_)
SetToSeq(S) ==
    IF S = {} THEN <<>>
    ELSE LET m == Min(S) IN <<m>> \o SetToSeq(S \ {m})

\* position of the first out-of-range column index of an indexed assignment,
\* Len(cols) + 1 when there is none
FirstBad(cols, n) ==
    LET bad == {p \in DOMAIN cols : ~InRange(cols[p], n)}
    IN  IF bad = {} THEN Len(cols) + 1 ELSE Min(bad)

\* t[rows, cols] = vals  for a 2-d tensor t (index_put_): the elements are
\* written in order; the first out-of-range index raises IndexError and the
\* elements before it stay written.  The last write to a cell wins.
IndexPut(t, rows, cols, vals) ==
    [b \in DOMAIN t |->
        LET n  == Width(t[b])
            fb == FirstBad(cols, n)
        IN  [i \in DOMAIN t[b] |->
                LET hits == {p \in 1..(fb - 1) : rows[p] = b /\ Wrap(cols[p], n) = i}
                IN  IF hits = {} THEN t[b][i] ELSE vals[Max(hits)]]]

\* the indexed assignment t[rows, cols] = ... raises IndexError
IndexPutRaises(t, rows, cols) ==
    \E p \in DOMAIN cols : ~InRange(cols[p], Width(t[rows[p]]))

\* ------------------------------------------------------------------------
\* class BatchedHyps (greedy buffer)
\* ------------------------------------------------------------------------
\* BatchedHyps.__init__(batch_size, init_length), both > 0
BatchedHyps(batch_size, init_length) ==
    [ _max_length         |-> init_length,
      current_lengths     |-> Zeros(batch_size),
      transcript          |-> [b \in 0..(batch_size - 1) |-> Zeros(init_length)],
      timesteps           |-> [b \in 0..(batch_size - 1) |-> Zeros(init_length)],
      scores              |-> Zeros(batch_size),
      last_timestep       |-> Full(batch_size, -1),
      last_timestep_lasts |-> Zeros(batch_size),
      batch_size          |-> batch_size ]

\* a clear_ that leaves the last observed frame of every item
clear_keeps_last_timestep(self) ==
    [self EXCEPT
        !.current_lengths     = [b \in DOMAIN @ |-> 0],
        !.transcript          = [b \in DOMAIN @ |-> [i \in DOMAIN @[b] |-> 0]],
        !.timesteps           = [b \in DOMAIN @ |-> [i \in DOMAIN @[b] |-> 0]],
        !.scores              = [b \in DOMAIN @ |-> 0],
        !.last_timestep_lasts = [b \in DOMAIN @ |-> 0]]

\* BatchedHyps.clear_: fill_ every tensor in place
clear_(self) ==
    [self EXCEPT
        !.current_lengths     = [b \in DOMAIN @ |-> 0],
        !.transcript          = [b \in DOMAIN @ |-> [i \in DOMAIN @[b] |-> 0]],
        !.timesteps           = [b \in DOMAIN @ |-> [i \in DOMAIN @[b] |-> 0]],
        !.scores              = [b \in DOMAIN @ |-> 0],
        !.last_timestep       = [b \in DOMAIN @ |-> -1],
        !.last_timestep_lasts = [b \in DOMAIN @ |-> 0]]

\* a mis-ordered concatenation: the fresh half first
CatFillFront(row, v) ==
    LET n == Width(row)
    IN  [i \in 0..(2 * n - 1) |-> IF i < n THEN v ELSE row[i - n]]

\* BatchedHyps._allocate_more with the fresh storage concatenated in front
BatchedHyps_allocate_more_front(self) ==
    [self EXCEPT
        !.transcript  = [b \in DOMAIN @ |-> CatFillFront(@[b], 0)],
        !.timesteps   = [b \in DOMAIN @ |-> CatFillFront(@[b], 0)],
        !._max_length = @ * 2]

\* BatchedHyps._allocate_more: double the storage, zero-filled
BatchedHyps_allocate_more(self) ==
    [self EXCEPT
        !.transcript  = [b \in DOMAIN @ |-> CatFill(@[b], 0)],
        !.timesteps   = [b \in DOMAIN @ |-> CatFill(@[b], 0)],
        !._max_length = @ * 2]

\* write cursors that stay at the first entry
active_lengths_first(self, active_indices) ==
    [p \in DOMAIN active_indices |-> 0]

\* the write cursors add_results_no_checks_ indexes with
active_lengths(self, active_indices) ==
    [p \in DOMAIN active_indices |-> self.current_lengths[active_indices[p]]]

\* BatchedHyps.add_results_no_checks_ raises IndexError (cursor outside the storage)
add_results_no_checks_raises(self, active_indices) ==
    IndexPutRaises(self.transcript, active_indices, active_lengths(self, active_indices))

\* self.current_lengths[active_indices] += 1
increase_lengths(current_lengths, act) ==
    [b \in DOMAIN current_lengths |->
        IF b \in act THEN current_lengths[b] + 1 ELSE current_lengths[b]]

\* a repeat-count update that restarts the count on every append
repeat_counts_restart(self, active_indices, time_indices) ==
    [b \in DOMAIN self.last_timestep_lasts |->
        IF b \in Range(active_indices) THEN 1 ELSE self.last_timestep_lasts[b]]

\* self.last_timestep_lasts[active_indices] = torch.where(
\*     self.last_timestep[active_indices] == time_indices,
\*     self.last_timestep_lasts[active_indices] + 1, 1)
repeat_counts(self, active_indices, time_indices) ==
    LET pos(b) == CHOOSE p \in DOMAIN active_indices : active_indices[p] = b
    IN  [b \in DOMAIN self.last_timestep_lasts |->
            IF b \in Range(active_indices)
            THEN (IF self.last_timestep[b] = time_indices[pos(b)]
                  THEN self.last_timestep_lasts[b] + 1 ELSE 1)
            ELSE self.last_timestep_lasts[b]]

\* BatchedHyps.add_results_no_checks_: active_indices is a list of distinct
\* batch indices; labels, time_indices and scores are aligned with it.
\* When the first indexed store raises, the statements before it have run.
add_results_no_checks_(self, active_indices, labels, time_indices, scores) ==
    LET act    == Range(active_indices)
        pos(b) == CHOOSE p \in DOMAIN active_indices : active_indices[p] = b
        lens   == active_lengths(self, active_indices)
        s1     == [self EXCEPT
                     !.scores = [b \in DOMAIN @ |->
                                   IF b \in act THEN @[b] + scores[pos(b)] ELSE @[b]],
                     !.transcript = IndexPut(@, active_indices, lens, labels)]
    IN  IF add_results_no_checks_raises(self, active_indices) THEN s1
        ELSE [s1 EXCEPT
                !.timesteps = IndexPut(@, active_indices, lens, time_indices),
                !.last_timestep_lasts = repeat_counts(self, active_indices, time_indices),
                !.last_timestep = [b \in DOMAIN @ |->
                    IF b \in act THEN time_indices[pos(b)] ELSE @[b]],
                !.current_lengths = increase_lengths(@, act)]

\* a capacity check that lets a full buffer through
add_results_grows_late(self) ==
    Max(Range(self.current_lengths)) > self._max_length

\* the capacity check of add_results_
add_results_grows(self) ==
    Max(Range(self.current_lengths)) >= self._max_length

\* the buffer add_results_ writes into (after its capacity check)
add_results_storage(self, active_indices) ==
    IF Len(active_indices) = 0 THEN self
    ELSE IF add_results_grows(self) THEN BatchedHyps_allocate_more(self)
    ELSE self

\* BatchedHyps.add_results_
add_results_(self, active_indices, labels, time_indices, scores) ==
    IF Len(active_indices) = 0 THEN self
    ELSE add_results_no_checks_(add_results_storage(self, active_indices),
                                active_indices, labels, time_indices, scores)

\* all batch indices, self._batch_indices
batch_indices(self) == [p \in 1..self.batch_size |-> p - 1]

\* the write cursors add_results_masked_no_checks_ indexes with: every item's
masked_lengths(self) == [p \in 1..self.batch_size |-> self.current_lengths[p - 1]]

\* BatchedHyps.add_results_masked_no_checks_ raises IndexError
add_results_masked_no_checks_raises(self) ==
    IndexPutRaises(self.transcript, batch_indices(self), masked_lengths(self))

\* a cursor update that ignores the mask
masked_increase_lengths_all(current_lengths, active_mask) ==
    [b \in DOMAIN current_lengths |-> current_lengths[b] + 1]

\* self.current_lengths += active_mask
masked_increase_lengths(current_lengths, active_mask) ==
    [b \in DOMAIN current_lengths |->
        current_lengths[b] + (IF active_mask[b] THEN 1 ELSE 0)]

\* a repeat-count update without the reset on a new frame
masked_repeat_counts_no_reset(self, active_mask, time_indices) ==
    [b \in DOMAIN self.last_timestep_lasts |->
        IF active_mask[b] /\ self.last_timestep[b] = time_indices[b]
        THEN self.last_timestep_lasts[b] + 1
        ELSE self.last_timestep_lasts[b]]

\* the two torch.where updates of self.last_timestep_lasts
masked_repeat_counts(self, active_mask, time_indices) ==
    LET \* first torch.where: increase on a repeated frame
        l1 == [b \in DOMAIN self.last_timestep_lasts |->
                 IF active_mask[b] /\ self.last_timestep[b] = time_indices[b]
                 THEN self.last_timestep_lasts[b] + 1
                 ELSE self.last_timestep_lasts[b]]
        \* second torch.where: set to 1 on a new frame
    IN  [b \in DOMAIN l1 |->
            IF active_mask[b] /\ self.last_timestep[b] # time_indices[b]
            THEN 1 ELSE l1[b]]

\* a score update that ignores the mask
masked_scores_all(self, active_mask, scores) ==
    [b \in DOMAIN self.scores |-> self.scores[b] + scores[b]]

\* torch.where(active_mask, self.scores + scores, self.scores, out=self.scores)
masked_scores(self, active_mask, scores) ==
    [b \in DOMAIN self.scores |->
        IF active_mask[b] THEN self.scores[b] + scores[b] ELSE self.scores[b]]

\* BatchedHyps.add_results_masked_no_checks_: active_mask, labels, time_indices
\* and scores are tensors over the whole batch
add_results_masked_no_checks_(self, active_mask, labels, time_indices, scores) ==
    LET bi == batch_indices(self)
        cl == masked_lengths(self)
        s1 == [self EXCEPT
                 !.scores = masked_scores(self, active_mask, scores),
                 !.transcript = IndexPut(@, bi, cl, [p \in DOMAIN bi |-> labels[p - 1]])]
    IN  IF add_results_masked_no_checks_raises(self) THEN s1
        ELSE [s1 EXCEPT
                !.timesteps = IndexPut(@, bi, cl, [p \in DOMAIN bi |-> time_indices[p - 1]]),
                !.last_timestep_lasts = masked_repeat_counts(self, active_mask, time_indices),
                !.last_timestep = [b \in DOMAIN @ |->
                    IF active_mask[b] THEN time_indices[b] ELSE @[b]],
                !.current_lengths = masked_increase_lengths(@, active_mask)]

\* the capacity check of add_results_masked_: the prospective lengths
add_results_masked_grows(self, active_mask) ==
    Max({self.current_lengths[b] + (IF active_mask[b] THEN 1 ELSE 0) :
            b \in DOMAIN self.current_lengths}) >= self._max_length

\* the buffer add_results_masked_ writes into (after its capacity check)
add_results_masked_storage(self, active_mask) ==
    IF add_results_masked_grows(self, active_mask)
    THEN BatchedHyps_allocate_more(self) ELSE self

\* BatchedHyps.add_results_masked_
add_results_masked_(self, active_mask, labels, time_indices, scores) ==
    add_results_masked_no_checks_(add_results_masked_storage(self, active_mask),
                                  active_mask, labels, time_indices, scores)

\* ------------------------------------------------------------------------
\* class BatchedAlignments (alignment buffer)
\* ------------------------------------------------------------------------
\* an optional tensor argument that is omitted (None)
None == <<>>

\* torch.zeros((batch_size, length)) of per-frame entries v
ZeroFrames(batch_size, length, v) ==
    [b \in 0..(batch_size - 1) |-> Full(length, v)]

\* the zero entry of a frame of frame_confidence: a pair when the duration
\* confidence is stored with it
ZeroConfidence(with_duration_confidence) ==
    IF with_duration_confidence THEN Zeros(2) ELSE 0

\* BatchedAlignments.__init__(batch_size, logits_dim, init_length,
\* store_alignments, store_frame_confidence, with_duration_confidence),
\* batch_size and init_length > 0; a tensor that is not stored is the empty
\* tensor
BatchedAlignments(batch_size, logits_dim, init_length, store_alignments, store_frame_confidence, with_duration_confidence) ==
    [ with_frame_confidence    |-> store_frame_confidence,
      with_duration_confidence |-> with_duration_confidence,
      with_alignments          |-> store_alignments,
      _max_length              |-> init_length,
      timesteps                |-> ZeroFrames(batch_size, init_length, 0),
      current_lengths          |-> Zeros(batch_size),
      logits                   |-> IF store_alignments
                                   THEN ZeroFrames(batch_size, init_length, Zeros(logits_dim))
                                   ELSE <<>>,
      labels                   |-> IF store_alignments
                                   THEN ZeroFrames(batch_size, init_length, 0)
                                   ELSE <<>>,
      frame_confidence         |-> IF store_frame_confidence
                                   THEN ZeroFrames(batch_size, init_length,
                                            ZeroConfidence(with_duration_confidence))
                                   ELSE <<>>,
      _batch_indices           |-> [p \in 1..batch_size |-> p - 1] ]

\* tensor.fill_(0) of a [batch, length] tensor of per-frame entries
FillFrames(t, v) == [b \in DOMAIN t |-> [i \in DOMAIN t[b] |-> v]]

\* BatchedAlignments.clear_
BatchedAlignments_clear_(self) ==
    [self EXCEPT
        !.current_lengths  = [b \in DOMAIN @ |-> 0],
        !.timesteps        = FillFrames(@, 0),
        !.logits           = [b \in DOMAIN @ |-> [i \in DOMAIN @[b] |->
                                 [d \in DOMAIN @[b][i] |-> 0]]],
        !.labels           = FillFrames(@, 0),
        !.frame_confidence = FillFrames(@, ZeroConfidence(self.with_duration_confidence))]

\* torch.cat((t, torch.zeros_like(t)), dim=1) of per-frame entries
CatFrames(t, v) == [b \in DOMAIN t |-> CatFill(t[b], v)]

\* BatchedAlignments._allocate_more
BatchedAlignments_allocate_more(self) ==
    [self EXCEPT
        !.timesteps        = CatFrames(@, 0),
        !.logits           = IF self.with_alignments
                             THEN CatFrames(@, [d \in DOMAIN @[0][0] |-> 0]) ELSE @,
        !.labels           = IF self.with_alignments THEN CatFrames(@, 0) ELSE @,
        !.frame_confidence = IF self.with_frame_confidence
                             THEN CatFrames(@, ZeroConfidence(self.with_duration_confidence))
                             ELSE @,
        !._max_length      = @ * 2]

\* the stores of a frame at the cursors cols of the items rows; the store of
\* timesteps comes first and raises IndexError on a cursor outside the storage
BatchedAlignments_store(self, rows, cols, time_indices, logits, labels, confidence) ==
    LET s1 == [self EXCEPT !.timesteps = IndexPut(@, rows, cols, time_indices)]
    IN  IF IndexPutRaises(self.timesteps, rows, cols) THEN s1
        ELSE [s1 EXCEPT
                !.logits = IF self.with_alignments /\ logits # None /\ labels # None
                           THEN IndexPut(@, rows, cols, logits) ELSE @,
                !.labels = IF self.with_alignments /\ logits # None /\ labels # None
                           THEN IndexPut(@, rows, cols, labels) ELSE @,
                !.frame_confidence = IF self.with_frame_confidence /\ confidence # None
                                     THEN IndexPut(@, rows, cols, confidence) ELSE @]

\* a cursor update that skips the first active item
align_increase_lengths_rest(current_lengths, active_indices) ==
    [b \in DOMAIN current_lengths |->
        IF b \in Range(Tail(active_indices)) THEN current_lengths[b] + 1 ELSE current_lengths[b]]

\* self.current_lengths[active_indices] += 1
align_increase_lengths(current_lengths, active_indices) ==
    increase_lengths(current_lengths, Range(active_indices))

\* BatchedAlignments.add_results_ raises IndexError
BatchedAlignments_add_results_raises(self, active_indices) ==
    /\ Len(active_indices) # 0
    /\ LET s == IF Max(Range(self.current_lengths)) >= self._max_length
                THEN BatchedAlignments_allocate_more(self) ELSE self
       IN  IndexPutRaises(s.timesteps, active_indices, active_lengths(s, active_indices))

\* BatchedAlignments.add_results_
BatchedAlignments_add_results_(self, active_indices, time_indices, logits, labels, confidence) ==
    IF Len(active_indices) = 0 THEN self
    ELSE LET s  == IF Max(Range(self.current_lengths)) >= self._max_length
                   THEN BatchedAlignments_allocate_more(self) ELSE self
             al == active_lengths(s, active_indices)
             s1 == BatchedAlignments_store(s, active_indices, al, time_indices,
                                           logits, labels, confidence)
         IN  IF IndexPutRaises(s.timesteps, active_indices, al) THEN s1
             ELSE [s1 EXCEPT !.current_lengths = align_increase_lengths(@, active_indices)]

\* the whole-batch tensor t as the list of values the indexed store takes
Flat(self, t) == IF t = None THEN None ELSE [p \in DOMAIN self._batch_indices |-> t[p - 1]]

\* the write cursors of the mask path: every item's
BatchedAlignments_cursors(self) ==
    [p \in DOMAIN self._batch_indices |-> self.current_lengths[p - 1]]

\* BatchedAlignments.add_results_masked_no_checks_
BatchedAlignments_add_results_masked_no_checks_(self, active_mask, time_indices, logits, labels, confidence) ==
    LET cl == BatchedAlignments_cursors(self)
        s1 == BatchedAlignments_store(self, self._batch_indices, cl, Flat(self, time_indices),
                                      Flat(self, logits), Flat(self, labels),
                                      Flat(self, confidence))
    IN  IF IndexPutRaises(self.timesteps, self._batch_indices, cl) THEN s1
        ELSE [s1 EXCEPT !.current_lengths = masked_increase_lengths(@, active_mask)]

\* the buffer BatchedAlignments.add_results_masked_ writes into
BatchedAlignments_masked_storage(self, active_mask) ==
    IF add_results_masked_grows(self, active_mask)
    THEN BatchedAlignments_allocate_more(self) ELSE self

\* BatchedAlignments.add_results_masked_ raises IndexError
BatchedAlignments_add_results_masked_raises(self, active_mask) ==
    LET s == BatchedAlignments_masked_storage(self, active_mask)
    IN  IndexPutRaises(s.timesteps, s._batch_indices, BatchedAlignments_cursors(s))

\* BatchedAlignments.add_results_masked_
BatchedAlignments_add_results_masked_(self, active_mask, time_indices, logits, labels, confidence) ==
    BatchedAlignments_add_results_masked_no_checks_(
        BatchedAlignments_masked_storage(self, active_mask),
        active_mask, time_indices, logits, labels, confidence)

\* ------------------------------------------------------------------------
\* Materializer
\* ------------------------------------------------------------------------
\* the Hypothesis dataclass: the fields batched_hyps_to_hypotheses passes and
\* the default of length
Hypothesis(score, y_sequence, timestep) ==
    [ score      |-> score,
      y_sequence |-> y_sequence,
      timestep   |-> timestep,
      alignments |-> "None",
      dec_state  |-> "None",
      length     |-> 0 ]

\* batch_size of batched_hyps_to_hypotheses: <<>> when omitted (None), <<n>> otherwise
NoBatchSize == <<>>

\* an argument check that also refuses the buffer's own batch size
batch_size_below(batched_hyps, batch_size) ==
    batch_size # <<>> /\ batch_size[1] >= Width(batched_hyps.scores)

\* the assert of batched_hyps_to_hypotheses fails: batch_size above the buffer's
batched_hyps_to_hypotheses_raises(batched_hyps, batch_size) ==
    batch_size # NoBatchSize /\ batch_size[1] > Width(batched_hyps.scores)

\* batched_hyps_to_hypotheses(batched_hyps, alignments=None, batch_size)
batched_hyps_to_hypotheses(batched_hyps, batch_size) ==
    LET num_hyps == IF batch_size = NoBatchSize THEN Width(batched_hyps.scores)
                    ELSE batch_size[1]
    IN  [p \in 1..num_hyps |->
            Hypothesis(batched_hyps.scores[p - 1],
                       Slice(batched_hyps.transcript[p - 1],
                             batched_hyps.current_lengths[p - 1]),
                       Slice(batched_hyps.timesteps[p - 1],
                             batched_hyps.current_lengths[p - 1]))]

\* a run that stops after its first frame
SingleFrame(s) == 1

\* length of the first run of equal consecutive values of a non-empty list
FirstRun(s) ==
    Max({n \in 1..Len(s) : \A j \in 1..n : s[j] = s[1]})

\* torch.unique_consecutive(row, return_counts=True): the counts
RECURSIVE unique_consecutive_counts(_)
unique_consecutive_counts(s) ==
    IF s = <<>> THEN <<>>
    ELSE <<FirstRun(s)>> \o unique_consecutive_counts(SubSeq(s, FirstRun(s) + 1, Len(s)))

\* the loop over grouped_counts: group after group of row[start + j],
\* j < timestep_cnt, with start advanced by timestep_cnt
RECURSIVE grouped(_, _, _)
grouped(row, counts, start) ==
    IF counts = <<>> THEN <<>>
    ELSE <<[j \in 1..counts[1] |-> row[start + j - 1]]>>
         \o grouped(row, Tail(counts), start + counts[1])

\* (alignment_logits[i, k], alignment_labels[i, k]) for every stored frame k
alignment_pairs(alignments, i) ==
    [k \in DOMAIN alignments.labels[i] |-> <<alignments.logits[i][k], alignments.labels[i][k]>>]

\* the alignments and frame_confidence batched_hyps_to_hypotheses puts on
\* hypothesis i when an alignment buffer is passed
with_alignments_of(hypothesis, alignments, i) ==
    LET counts == unique_consecutive_counts(
                      Slice(alignments.timesteps[i], alignments.current_lengths[i]))
    IN  [ score            |-> hypothesis.score,
          y_sequence       |-> hypothesis.y_sequence,
          timestep         |-> hypothesis.timestep,
          dec_state        |-> hypothesis.dec_state,
          length           |-> hypothesis.length,
          alignments       |-> IF alignments.with_alignments
                               THEN grouped(alignment_pairs(alignments, i), counts, 0)
                               ELSE <<>>,
          frame_confidence |-> IF alignments.with_frame_confidence
                               THEN grouped(alignments.frame_confidence[i], counts, 0)
                               ELSE "None" ]

\* batched_hyps_to_hypotheses(batched_hyps, alignments, batch_size) with an
\* alignment buffer of the same batch size as batched_hyps
batched_hyps_to_hypotheses_aligned(batched_hyps, alignments, batch_size) ==
    LET hypotheses == batched_hyps_to_hypotheses(batched_hyps, batch_size)
    IN  [p \in DOMAIN hypotheses |-> with_alignments_of(hypotheses[p], alignments, p - 1)]

\* ------------------------------------------------------------------------
\* Scores of the beam buffer: float32 tensors (float_dtype None is torch's
\* default dtype).  A finite float is the pair <<m, e>> of value m * 2^e,
\* with m = 0 and e = 0 for zero and 2^23 <= |m| < 2^24 otherwise; every
\* operation rounds its exact result to the nearest float, ties to the even
\* mantissa, as IEEE 754 arithmetic does.  The finite values of the model
\* stay far from the overflow and subnormal ranges; the infinities and nan
\* have exponents above every finite one.
\* ------------------------------------------------------------------------
Abs(x) == IF x < 0 THEN -x ELSE x

\* number of bits of the integer n, 1 <= n < 2^31 (the thresholds are
\* 2^24, 2^28, 2^30, 2^29, 2^26, 2^27 and 2^25)
BitLen(n) ==
    IF n >= 16777216
    THEN IF n >= 268435456
         THEN IF n >= 1073741824 THEN 31 ELSE IF n >= 536870912 THEN 30 ELSE 29
         ELSE IF n >= 67108864
              THEN IF n >= 134217728 THEN 28 ELSE 27
              ELSE IF n >= 33554432 THEN 26 ELSE 25
    ELSE 25 - (CHOOSE j \in 1..24 : 2^(24 - j) <= n /\ n < 2^(25 - j))

FloatZero == <<0, 0>>

\* float("-inf"): below every finite float
NegInf == <<-1, 128>>

\* float("inf") and nan, the results of a division by zero
PosInf == <<1, 128>>
NaN == <<0, 129>>

\* a + b when one of them is not finite: nan if one is nan or the two are
\* opposite infinities, the infinity otherwise
AddNonFinite[a \in Int \X Int, b \in Int \X Int] ==
    IF a = NaN \/ b = NaN THEN NaN
    ELSE IF a[2] >= 128 /\ b[2] >= 128 THEN IF a = b THEN a ELSE NaN
    ELSE IF a[2] >= 128 THEN a ELSE b

\* the 24 leading bits hi of a magnitude, raised by one when the bits cut
\* off, low, are more than half a unit of hi, or exactly half with hi odd
\* (sticky: something below low was lost as well); e is the exponent of hi
RoundUp[sign \in {-1, 1}, hi \in Nat, low \in Nat, half \in Nat, sticky \in BOOLEAN, e \in Int] ==
    IF low > half \/ (low = half /\ (sticky \/ hi % 2 = 1))
    THEN IF hi + 1 = 2^24 THEN <<sign * 2^23, e + 1>> ELSE <<sign * (hi + 1), e>>
    ELSE <<sign * hi, e>>

\* RoundToFloat for a magnitude v of n bits
RoundAt[sign \in {-1, 1}, v \in Nat, sticky \in BOOLEAN, e \in Int, n \in 1..31] ==
    IF n <= 24 THEN <<sign * v * 2^(24 - n), e - (24 - n)>>
    ELSE RoundUp[sign, v \div 2^(n - 24), v % 2^(n - 24), 2^(n - 25), sticky, e + (n - 24)]

\* the float nearest to sign * (mag + f) * 2^e, where mag >= 0 is an integer,
\* 0 <= f < 1 and sticky tells whether f > 0 (mag = 0 only with f = 0)
RoundToFloat(sign, mag, sticky, e) ==
    IF mag = 0 THEN FloatZero ELSE RoundAt[sign, mag, sticky, e, BitLen(mag)]

\* big + small for |big| >= |small| > 0, where X is the magnitude of big with
\* 5 more bits, Y that of small aligned to it, and sticky tells whether the
\* alignment lost bits of small
AddMagnitudes[big \in Int \X Int, X \in Nat, Y \in Nat, sticky \in BOOLEAN, same \in BOOLEAN] ==
    RoundToFloat(IF big[1] < 0 THEN -1 ELSE 1,
                 IF same THEN X + Y ELSE IF sticky THEN X - Y - 1 ELSE X - Y,
                 sticky, big[2] - 5)

\* big + small, |big| >= |small| > 0 with d the difference of the exponents
AddAligned[big \in Int \X Int, small \in Int \X Int, d \in Nat] ==
    AddMagnitudes[big, Abs(big[1]) * 32,
                  IF d <= 5 THEN Abs(small[1]) * 2^(5 - d)
                  ELSE IF d >= 30 THEN 0 ELSE Abs(small[1]) \div 2^(d - 5),
                  d > 5 /\ (d >= 30 \/ Abs(small[1]) % 2^(d - 5) # 0),
                  (big[1] < 0) = (small[1] < 0)]

\* a + b with abig telling whether |a| >= |b|
AddOrdered[a \in Int \X Int, b \in Int \X Int, abig \in BOOLEAN] ==
    IF a[2] >= 128 \/ b[2] >= 128 THEN AddNonFinite[a, b]
    ELSE IF a = FloatZero THEN b
    ELSE IF b = FloatZero THEN a
    ELSE AddAligned[IF abig THEN a ELSE b, IF abig THEN b ELSE a,
                    IF abig THEN a[2] - b[2] ELSE b[2] - a[2]]

AddFloats[a \in Int \X Int, b \in Int \X Int] ==
    AddOrdered[a, b, a[2] > b[2] \/ (a[2] = b[2] /\ Abs(a[1]) >= Abs(b[1]))]

\* x + y: the exact sum of two finite floats, rounded
FloatAdd(x, y) == AddFloats[x, y]

\* a / d, where q0 and r0 are quotient and remainder of the mantissa of a by
\* d: q0 is extended by s bits, taken from r0, to 29 bits
DivScaled[a \in Int \X Int, d \in Nat, q0 \in Nat, r0 \in Nat, s \in Int] ==
    RoundToFloat(IF a[1] < 0 THEN -1 ELSE 1, q0 * 2^s + (r0 * 2^s) \div d,
                 (r0 * 2^s) % d # 0, a[2] - s)

\* a / d: an infinity or nan stays; a finite a over zero is nan for zero and
\* the infinity of its sign otherwise
DivFloat[a \in Int \X Int, d \in Nat] ==
    IF a[2] >= 128 THEN a
    ELSE IF d = 0 THEN IF a = FloatZero THEN NaN ELSE IF a[1] < 0 THEN NegInf ELSE PosInf
    ELSE IF a = FloatZero THEN FloatZero
    ELSE DivScaled[a, d, Abs(a[1]) \div d, Abs(a[1]) % d, 29 - BitLen(Abs(a[1]) \div d)]

\* x / n for a float x and an integer n >= 0 (true division of a float
\* tensor by a long tensor): the exact quotient, rounded
FloatDivInt(x, n) == DivFloat[x, n]

\* the float nearest to n / d, d > 0: what torch.tensor holds for the decimal
\* literal of n / d
Float32(n, d) ==
    FloatDivInt(RoundToFloat(IF n < 0 THEN -1 ELSE 1, Abs(n), FALSE, 0), d)

\* a < b: false with a nan, by exponent and mantissa when the signs agree,
\* by sign otherwise
LessFloats[a \in Int \X Int, b \in Int \X Int] ==
    IF a = NaN \/ b = NaN THEN FALSE
    ELSE IF a[1] < 0 /\ b[1] < 0 THEN a[2] > b[2] \/ (a[2] = b[2] /\ a[1] < b[1])
    ELSE IF a[1] > 0 /\ b[1] > 0 THEN a[2] < b[2] \/ (a[2] = b[2] /\ a[1] < b[1])
    ELSE a[1] < b[1]

\* x < y
FloatLess(x, y) == LessFloats[x, y]

\* ------------------------------------------------------------------------
\* class BeamBatchedHyps (beam buffer)
\* ------------------------------------------------------------------------
\* self.blank_tensor
blank_tensor == 1024

\* a [batch, beam] tensor filled with v
Full2(batch_size, beam_size, v) ==
    [b \in 0..(batch_size - 1) |-> [k \in 0..(beam_size - 1) |-> v]]

\* a [batch, beam, length] tensor filled with v
Full3(batch_size, beam_size, length, v) ==
    [b \in 0..(batch_size - 1) |-> [k \in 0..(beam_size - 1) |-> Full(length, v)]]

\* BeamBatchedHyps.__init__(batch_size, beam_size, max_timesteps, init_length)
BeamBatchedHyps(batch_size, beam_size, init_length) ==
    [ _max_length               |-> init_length,
      beam_size                 |-> beam_size,
      batch_size                |-> batch_size,
      current_lengths           |-> Full2(batch_size, beam_size, 0),
      transcripts               |-> Full3(batch_size, beam_size, init_length, 0),
      timesteps                 |-> Full3(batch_size, beam_size, init_length, 0),
      timesteps_end             |-> Full3(batch_size, beam_size, init_length, 0),
      scores                    |-> Full2(batch_size, beam_size, FloatZero),
      last_timestep             |-> Full2(batch_size, beam_size, 0),
      last_timestep_lasts       |-> Full2(batch_size, beam_size, 0),
      _label_scores             |-> Full2(batch_size, beam_size, FloatZero),
      _blank_scores             |-> Full2(batch_size, beam_size, FloatZero),
      _total_scores             |-> Full3(batch_size, beam_size, init_length, FloatZero),
      _token_scores             |-> Full3(batch_size, beam_size, init_length, FloatZero),
      _full_current_lengths     |-> Full2(batch_size, beam_size, 0),
      _full_timesteps           |-> Full3(batch_size, beam_size, init_length, 0),
      _full_transcripts         |-> Full3(batch_size, beam_size, init_length, blank_tensor),
      last_timestep_repetitions |-> Full2(batch_size, beam_size, 0),
      best_hyps                 |-> [b \in 0..(batch_size - 1) |-> <<>>] ]

\* tensor.fill_(v) of a [batch, beam] tensor
Fill2(t, v) == [b \in DOMAIN t |-> [k \in DOMAIN t[b] |-> v]]

\* tensor.fill_(v) of a [batch, beam, length] tensor
Fill3(t, v) == [b \in DOMAIN t |-> [k \in DOMAIN t[b] |-> [i \in DOMAIN t[b][k] |-> v]]]

\* BeamBatchedHyps.clear_
BeamBatchedHyps_clear_(self) ==
    [self EXCEPT
        !.current_lengths     = Fill2(@, 0),
        !.transcripts         = Fill3(@, 0),
        !.timesteps           = Fill3(@, 0),
        !.scores              = Fill2(@, FloatZero),
        !.last_timestep       = Fill2(@, -1),
        !.last_timestep_lasts = Fill2(@, 0)]

\* torch.cat((t, torch.full_like(t, v)), dim=2)
CatFill3(t, v) == [b \in DOMAIN t |-> [k \in DOMAIN t[b] |-> CatFill(t[b][k], v)]]

\* BeamBatchedHyps._allocate_more
BeamBatchedHyps_allocate_more(self) ==
    [self EXCEPT
        !.timesteps         = CatFill3(@, 0),
        !.transcripts       = CatFill3(@, 0),
        !.timesteps_end     = CatFill3(@, 0),
        !._full_timesteps   = CatFill3(@, 0),
        !._full_transcripts = CatFill3(@, blank_tensor),
        !._total_scores     = CatFill3(@, FloatZero),
        !._token_scores     = CatFill3(@, FloatZero),
        !._max_length       = @ * 2]

\* elementwise a + b of [batch, beam] integer tensors
Add2(x, y) == [b \in DOMAIN x |-> [k \in DOMAIN x[b] |-> x[b][k] + y[b][k]]]

\* elementwise a + n
AddInt2(x, n) == [b \in DOMAIN x |-> [k \in DOMAIN x[b] |-> x[b][k] + n]]

\* elementwise a + b of [batch, beam] float tensors
FloatAdd2(x, y) == [b \in DOMAIN x |-> [k \in DOMAIN x[b] |-> FloatAdd(x[b][k], y[b][k])]]

\* tensor.max() of a [batch, beam] tensor
Max2(x) == Max(UNION {{x[b][k] : k \in DOMAIN x[b]} : b \in DOMAIN x})

\* position of (b, k) in the row-major order of a [batch, beam] index
Order(t, b, k) == b * Cardinality(DOMAIN t[b]) + k

\* row-major position of the first out-of-range index of
\* t[batch_indices, beam_indices, idx] (the number of elements when none is)
FirstBad3(t, idx) ==
    LET bad == {Order(t, bk[1], bk[2]) :
                   bk \in {x \in (DOMAIN t) \X (DOMAIN t[0]) :
                             ~InRange(idx[x[1]][x[2]], Width(t[x[1]][x[2]]))}}
    IN  IF bad = {} THEN Cardinality(DOMAIN t) * Cardinality(DOMAIN t[0]) ELSE Min(bad)

\* t[batch_indices, beam_indices, idx] = vals raises IndexError
IndexPut3Raises(t, idx) ==
    \E b \in DOMAIN t : \E k \in DOMAIN t[b] : ~InRange(idx[b][k], Width(t[b][k]))

\* t[batch_indices, beam_indices, idx] = vals : one store per (b, k), in
\* row-major order up to the first out-of-range index
IndexPut3(t, idx, vals) ==
    LET fb == FirstBad3(t, idx)
    IN  [b \in DOMAIN t |-> [k \in DOMAIN t[b] |->
            IF Order(t, b, k) < fb
            THEN [t[b][k] EXCEPT ![Wrap(idx[b][k], Width(t[b][k]))] = vals[b][k]]
            ELSE t[b][k]]]

\* t[batch_indices, beam_indices, idx] as a [batch, beam] tensor
Index3(t, idx) ==
    [b \in DOMAIN t |-> [k \in DOMAIN t[b] |-> t[b][k][Wrap(idx[b][k], Width(t[b][k]))]]]

\* t.gather(dim=1, index=beam_idx) of a [batch, beam] or [batch, beam, length] tensor
Gather(t, beam_idx) ==
    [b \in DOMAIN t |-> [k \in DOMAIN beam_idx[b] |-> t[b][beam_idx[b][k]]]]

\* BeamBatchedHyps._calculate_score
_calculate_score(label_logps, blank_logps) == FloatAdd2(label_logps, blank_logps)

\* a full-trace cursor that counts the blanks only
advance_full_lengths_blanks_only(full_current_lengths, num_blanks) ==
    Add2(full_current_lengths, num_blanks)

\* self._full_current_lengths + num_blanks + 1
advance_full_lengths(full_current_lengths, num_blanks) ==
    AddInt2(Add2(full_current_lengths, num_blanks), 1)

\* the growth check of append_labels, on the lengths already advanced
append_labels_grows(self) ==
    Max2(self._full_current_lengths) > self._max_length - 1

\* a per-step term that is not divided by the length
append_labels_score_unnormalized(self, label_logps, blank_logps) ==
    _calculate_score(label_logps, blank_logps)

\* the per-step term of append_labels:
\* self._calculate_score(label_logps, blank_logps) / self._full_current_lengths
append_labels_score(self, label_logps, blank_logps) ==
    LET sum == _calculate_score(label_logps, blank_logps)
    IN  [b \in DOMAIN sum |-> [k \in DOMAIN sum[b] |->
            FloatDivInt(sum[b][k], self._full_current_lengths[b][k])]]

\* self.scores += score
append_labels_scores(self, score) == FloatAdd2(self.scores, score)

\* the masked store of the per-blank scores: positions
\* blank_start_indices .. blank_start_indices + num_blanks - 1 of each beam
\* take blank_logps_per_blank[b, k, 0 .. num_blanks - 1]
store_blank_scores(token_scores, blank_start_indices, num_blanks, blank_logps_per_blank) ==
    [b \in DOMAIN token_scores |-> [k \in DOMAIN token_scores[b] |->
        [i \in DOMAIN token_scores[b][k] |->
            IF i >= blank_start_indices[b][k] /\ i < blank_start_indices[b][k] + num_blanks[b][k]
            THEN blank_logps_per_blank[b][k][i - blank_start_indices[b][k]]
            ELSE token_scores[b][k][i]]]]

\* BeamBatchedHyps.append_labels: the object after the call and the exception it
\* ended with ("none" when it returned).  The lengths are advanced and the
\* storage is grown (once) first; the statements run in source order and the
\* first indexed store with an out-of-range index raises IndexError.
append_labels(self, labels, label_logps, blank_logps, blank_logps_per_blank, num_blanks) ==
    LET blank_start_indices == self._full_current_lengths
        s1 == [self EXCEPT
                 !.current_lengths = AddInt2(@, 1),
                 !._full_current_lengths = advance_full_lengths(@, num_blanks)]
        s2 == IF append_labels_grows(s1) THEN BeamBatchedHyps_allocate_more(s1) ELSE s1
        cur1  == AddInt2(s2.current_lengths, -1)
        cur2  == AddInt2(s2.current_lengths, -2)
        full1 == AddInt2(s2._full_current_lengths, -1)
        \* self.transcripts[..., self.current_lengths - 1] = labels
        s3 == [s2 EXCEPT !.transcripts = IndexPut3(@, cur1, labels)]
        score == append_labels_score(s2, label_logps, blank_logps)
        s4 == [s3 EXCEPT
                 !._label_scores = FloatAdd2(@, label_logps),
                 !._blank_scores = FloatAdd2(@, blank_logps),
                 !.scores = append_labels_scores(s2, score)]
        \* timesteps_end is as in s2 up to here
        s5 == [s4 EXCEPT !.timesteps = IndexPut3(@, cur1, Index3(s2.timesteps_end, cur2))]
        timesteps_end == IndexPut3(s2.timesteps_end, cur1,
                                   Add2(Index3(s2.timesteps_end, cur2), num_blanks))
        s6 == [s5 EXCEPT !.timesteps_end = timesteps_end]
        \* self._full_transcripts[..., self._full_current_lengths - 1] = labels
        s7 == [s6 EXCEPT !._full_transcripts = IndexPut3(@, full1, labels)]
        s8 == [s7 EXCEPT
                 !._full_timesteps = IndexPut3(@, full1, Index3(timesteps_end, cur1)),
                 !._total_scores = IndexPut3(@, cur1, score)]
        s9 == [s8 EXCEPT !._token_scores =
                 IF Max2(num_blanks) = 0 THEN @
                 ELSE store_blank_scores(@, blank_start_indices, num_blanks,
                                         blank_logps_per_blank)]
        s10 == [s9 EXCEPT
                 !._token_scores = IndexPut3(@, full1, label_logps),
                 !.last_timestep = Add2(@, num_blanks),
                 !.last_timestep_repetitions =
                     [b \in DOMAIN @ |-> [k \in DOMAIN @[b] |->
                         IF num_blanks[b][k] = 0 THEN @[b][k] + 1 ELSE 1]]]
    IN  IF IndexPut3Raises(s2.transcripts, cur1)
        THEN [obj |-> s3, raised |-> "IndexError"]
        ELSE IF IndexPut3Raises(s2._full_transcripts, full1)
        THEN [obj |-> s7, raised |-> "IndexError"]
        ELSE [obj |-> s10, raised |-> "none"]

\* the gathers of update_beam with the one of _full_transcripts left out
update_beam_reorder_partial(self, beam_idx) ==
    [self EXCEPT
        !.scores                    = Gather(@, beam_idx),
        !.last_timestep             = Gather(@, beam_idx),
        !.current_lengths           = Gather(@, beam_idx),
        !.last_timestep_repetitions = Gather(@, beam_idx),
        !.timesteps                 = Gather(@, beam_idx),
        !.transcripts               = Gather(@, beam_idx),
        !.timesteps_end             = Gather(@, beam_idx),
        !._full_timesteps           = Gather(@, beam_idx),
        !._label_scores             = Gather(@, beam_idx),
        !._blank_scores             = Gather(@, beam_idx),
        !._total_scores             = Gather(@, beam_idx),
        !._token_scores             = Gather(@, beam_idx),
        !._full_current_lengths     = Gather(@, beam_idx)]

\* the gathers of update_beam: every per-beam tensor reordered by beam_idx
update_beam_reorder(self, beam_idx) ==
    [self EXCEPT
        !.scores                    = Gather(@, beam_idx),
        !.last_timestep             = Gather(@, beam_idx),
        !.current_lengths           = Gather(@, beam_idx),
        !.last_timestep_repetitions = Gather(@, beam_idx),
        !.timesteps                 = Gather(@, beam_idx),
        !.transcripts               = Gather(@, beam_idx),
        !.timesteps_end             = Gather(@, beam_idx),
        !._full_timesteps           = Gather(@, beam_idx),
        !._label_scores             = Gather(@, beam_idx),
        !._blank_scores             = Gather(@, beam_idx),
        !._total_scores             = Gather(@, beam_idx),
        !._token_scores             = Gather(@, beam_idx),
        !._full_current_lengths     = Gather(@, beam_idx),
        !._full_transcripts         = Gather(@, beam_idx)]

\* BeamBatchedHyps.update_beam
update_beam(self, labels, label_logps, blank_logps, blank_logps_per_blank, num_blanks, beam_idx) ==
    append_labels(update_beam_reorder(self, beam_idx),
                  labels, label_logps, blank_logps, blank_logps_per_blank, num_blanks)

\* tensor.shape of a [batch, beam] tensor
Shape2(t) == <<Cardinality(DOMAIN t), Cardinality(DOMAIN t[0])>>

\* x + y is defined for [batch, beam] tensors x and y: in every dimension the
\* sizes are equal or one of them is 1 (broadcasting)
Broadcastable(x, y) ==
    \A d \in 1..2 : Shape2(x)[d] = Shape2(y)[d] \/ Shape2(x)[d] = 1 \/ Shape2(y)[d] = 1

\* x + y with broadcasting
BroadcastAdd2(x, y) ==
    LET rows == Max({Shape2(x)[1], Shape2(y)[1]})
        cols == Max({Shape2(x)[2], Shape2(y)[2]})
        at(t, b, k) == t[IF Shape2(t)[1] = 1 THEN 0 ELSE b][IF Shape2(t)[2] = 1 THEN 0 ELSE k]
    IN  [b \in 0..(rows - 1) |-> [k \in 0..(cols - 1) |-> at(x, b, k) + at(y, b, k)]]

\* the asserts of append_labels hold
append_labels_asserts(self, labels, label_logps, blank_logps, num_blanks) ==
    /\ Shape2(labels)[1] = self.batch_size
    /\ Shape2(labels)[2] = self.beam_size
    /\ Shape2(label_logps) = Shape2(labels)
    /\ Shape2(blank_logps) = Shape2(labels)
    /\ Shape2(num_blanks) = Shape2(labels)

\* BeamBatchedHyps.append_labels with arguments of any shape: the lengths are
\* advanced (the sum with num_blanks broadcasts, or raises RuntimeError) and
\* the storage is grown before the asserts on the shapes
append_labels_any(self, labels, label_logps, blank_logps, blank_logps_per_blank, num_blanks) ==
    LET s0 == [self EXCEPT !.current_lengths = AddInt2(@, 1)]
        s1 == [s0 EXCEPT !._full_current_lengths =
                  AddInt2(BroadcastAdd2(@, num_blanks), 1)]
        s2 == IF append_labels_grows(s1) THEN BeamBatchedHyps_allocate_more(s1) ELSE s1
    IN  IF ~Broadcastable(self._full_current_lengths, num_blanks)
        THEN [obj |-> s0, raised |-> "RuntimeError"]
        ELSE IF ~append_labels_asserts(self, labels, label_logps, blank_logps, num_blanks)
        THEN [obj |-> s2, raised |-> "AssertionError"]
        ELSE append_labels(self, labels, label_logps, blank_logps, blank_logps_per_blank,
                           num_blanks)

\* BeamBatchedHyps.update_beam with arguments of any shape (beam_idx of
\* shape [batch, beam])
update_beam_any(self, labels, label_logps, blank_logps, blank_logps_per_blank, num_blanks, beam_idx) ==
    append_labels_any(update_beam_reorder(self, beam_idx),
                      labels, label_logps, blank_logps, blank_logps_per_blank, num_blanks)

\* the Hypothesis dataclass as add_completed fills it: y_sequence and
\* token_scores are 1-d tensors, timestep is a [1, n] tensor, and score, a
\* tensor of one element, is held as that element
BeamHypothesis(blank_score, label_score, token_scores, score, y_sequence, timestep) ==
    [ score        |-> score,
      y_sequence   |-> y_sequence,
      label_score  |-> label_score,
      blank_score  |-> blank_score,
      token_scores |-> token_scores,
      timestep     |-> timestep,
      length       |-> 0 ]

\* the test of add_completed on list element idx of beam_idx[batch_idx]:
\* active_mask.flatten()[idx], where active_mask[j] is
\* became_inactive_logps[batch_idx, beam_idx[batch_idx, j]] != -inf
add_completed_selects(batch_idx, idx, beam_idx, became_inactive_logps) ==
    became_inactive_logps[batch_idx][beam_idx[batch_idx][idx]] # NegInf

\* the Hypothesis add_completed builds for beam idx of item batch_idx
add_completed_hypothesis(self, batch_idx, idx, labels, label_logps, blank_logps, num_blanks, became_inactive_logps_per_blank) ==
    LET label        == labels[batch_idx][idx]
        label_logp   == label_logps[batch_idx][idx]
        blank_logp   == blank_logps[batch_idx][idx]
        num_blank    == num_blanks[batch_idx][idx]
        blank_scores == Slice(became_inactive_logps_per_blank[batch_idx][idx], num_blank)
        length       == self._full_current_lengths[batch_idx][idx] + num_blank + 1
        full_transcript == Slice(self._full_transcripts[batch_idx][idx], length) \o <<label>>
        token_scores == Slice(self._token_scores[batch_idx][idx], length)
                            \o blank_scores \o <<label_logp>>
        curr_label_logps == FloatAdd(self._label_scores[batch_idx][idx], label_logp)
        curr_blank_logps == FloatAdd(self._blank_scores[batch_idx][idx], blank_logp)
        score == FloatDivInt(FloatAdd(curr_label_logps, curr_blank_logps), length)
        \* self._full_timesteps[batch_idx, idx, :length] is not flattened:
        \* batch_idx has shape [1], so the slice is a [1, n] tensor
        timestep == <<Slice(self._full_timesteps[batch_idx][idx], length)>>
    IN  BeamHypothesis(blank_logps, label_logps, token_scores, score, full_transcript,
                       timestep)

\* the hypotheses add_completed appends for item batch_idx, walking
\* beam_idx[batch_idx] from list position j on
RECURSIVE add_completed_from(_, _, _, _, _, _, _, _, _, _)
add_completed_from(self, batch_idx, j, labels, label_logps, blank_logps, num_blanks, beam_idx, became_inactive_logps, became_inactive_logps_per_blank) ==
    IF j >= self.beam_size THEN <<>>
    ELSE LET idx == beam_idx[batch_idx][j]
             rest == add_completed_from(self, batch_idx, j + 1, labels, label_logps,
                                        blank_logps, num_blanks, beam_idx,
                                        became_inactive_logps,
                                        became_inactive_logps_per_blank)
         IN  IF add_completed_selects(batch_idx, idx, beam_idx, became_inactive_logps)
             THEN <<add_completed_hypothesis(self, batch_idx, idx, labels, label_logps,
                                             blank_logps, num_blanks,
                                             became_inactive_logps_per_blank)>> \o rest
             ELSE rest

\* BeamBatchedHyps.add_completed
add_completed(self, labels, label_logps, blank_logps, num_blanks, beam_idx, became_inactive_logps, became_inactive_logps_per_blank) ==
    [self EXCEPT !.best_hyps = [b \in DOMAIN @ |->
        @[b] \o add_completed_from(self, b, 0, labels, label_logps, blank_logps, num_blanks,
                                   beam_idx, became_inactive_logps,
                                   became_inactive_logps_per_blank)]]

\* ------------------------------------------------------------------------
\* sorted(hyps, key=lambda x: x.score, reverse=True): the list sort of
\* CPython on the keys x.score, which it compares with < alone.  A list of
\* fewer than 64 entries is sorted as one run: the run found at its head is
\* extended entry by entry by binary insertion.  With reverse the list is
\* reversed before and after, which keeps entries of equal keys in their
\* original order.
\* ------------------------------------------------------------------------
\* the list in the opposite order
Reverse(s) == [i \in 1..Len(s) |-> s[Len(s) + 1 - i]]

\* the end of the run of s that holds its first n entries: the run goes on
\* while the next key is less than the one before it (descending), or is
\* not less (ascending)
RECURSIVE run_end(_, _, _)
run_end(s, n, descending) ==
    IF n < Len(s) /\ FloatLess(s[n + 1].score, s[n].score) = descending
    THEN run_end(s, n + 1, descending)
    ELSE n

\* count_run: the length of the run at the head of s, Len(s) >= 2, and
\* whether it is strictly descending
count_run(s) ==
    [n          |-> run_end(s, 2, FloatLess(s[2].score, s[1].score)),
     descending |-> FloatLess(s[2].score, s[1].score)]

\* a search that goes left on an entry of equal key as well
binarysort_goes_left_on_equal(pivot, entry) == ~FloatLess(entry.score, pivot.score)

\* the test of binarysort's search: the pivot goes left of an entry when its
\* key is less than the entry's
binarysort_goes_left(pivot, entry) == FloatLess(pivot.score, entry.score)

\* the position binarysort finds for pivot among s[l], ..., s[r - 1]
RECURSIVE binarysort_position(_, _, _, _)
binarysort_position(s, pivot, l, r) ==
    IF l >= r THEN l
    ELSE IF binarysort_goes_left(pivot, s[l + ((r - l) \div 2)])
         THEN binarysort_position(s, pivot, l, l + ((r - l) \div 2))
         ELSE binarysort_position(s, pivot, l + ((r - l) \div 2) + 1, r)

\* binarysort: s[1..start-1] is sorted, the entries from start on are
\* inserted one after the other, each moved to the position l found for it
RECURSIVE binarysort(_, _)
binarysort(s, start) ==
    IF start > Len(s) THEN s
    ELSE LET l == binarysort_position(s, s[start], 1, start)
         IN  binarysort([i \in 1..Len(s) |-> IF i < l \/ i > start THEN s[i]
                                              ELSE IF i = l THEN s[start] ELSE s[i - 1]],
                        start + 1)

\* sorted(hyps, key=lambda x: x.score, reverse=True), fewer than 64 entries:
\* the reversed list, its head run put in ascending order, sorted by
\* binarysort from the end of that run on, and reversed again
SortedByScore(hyps) ==
    IF Len(hyps) < 2 THEN hyps
    ELSE LET s   == Reverse(hyps)
             run == count_run(s)
         IN  Reverse(binarysort([i \in 1..Len(s) |->
                                    IF run.descending /\ i <= run.n THEN s[run.n + 1 - i]
                                    ELSE s[i]],
                                run.n + 1))

\* BeamBatchedHyps.get_best_hyps raises IndexError: sorted_hyps[0] of an empty list
get_best_hyps_raises(self) ==
    \E b \in DOMAIN self.best_hyps : self.best_hyps[b] = <<>>

\* BeamBatchedHyps.get_best_hyps: the list it returns
get_best_hyps(self) ==
    [p \in 1..self.batch_size |-> SortedByScore(self.best_hyps[p - 1])[1]]

\* ------------------------------------------------------------------------
\* State
\* ------------------------------------------------------------------------
VARIABLES
    hyps,       \* the greedy buffer (a BatchedHyps object)
    twin,       \* a second BatchedHyps object fed the same logical updates
    appended,   \* per item: the <<label, frame index>> pairs appended to hyps since construction/clear
    error,      \* exception raised by the last call, "none" when it returned
    returned,   \* what the last call of batched_hyps_to_hypotheses returned
    beam,       \* the beam buffer (a BeamBatchedHyps object)
    call,       \* the last call on beam: method, object before it, arguments, exception, result
    clean,      \* no clear_ and no raising call on beam since its construction
    align,      \* the alignment buffer (a BatchedAlignments object)
    built,      \* the last constructor call: class, arguments, exception
    step,       \* the last method called on hyps and the logical update it was given
    held        \* the label and frame sequences of the returned hypotheses, as they read now

greedy_vars == <<hyps, twin, appended, error, returned>>

beam_vars == <<beam, call, clean>>

other_vars == <<align, built, step, held>>

vars == <<greedy_vars, beam_vars, other_vars>>

NothingReturned == [called |-> FALSE, batch_size |-> NoBatchSize, raised |-> "none", value |-> <<>>]

\* ------------------------------------------------------------------------
\* Arguments of the beam buffer's methods
\* ------------------------------------------------------------------------
\* self.beam_size: the beam width the beam buffer is constructed with
BeamSize == 2
\* batch size the beam buffer is constructed with
BeamBatch == 1

BeamItems == 0..(BeamBatch - 1)

Beams == 0..(BeamSize - 1)

\* one beam's extension in a call: label, its log-probability, the summed
\* log-probability of the blanks before it, and their number
Extensions ==
    { [label |-> 3, label_logp |-> Float32(-1, 2), blank_logp |-> Float32(-1, 10), num_blanks |-> 0],
      [label |-> 5, label_logp |-> Float32(-1, 1), blank_logp |-> Float32(-1, 5),  num_blanks |-> 1],
      [label |-> 7, label_logp |-> Float32(-1, 2), blank_logp |-> Float32(-2, 5),  num_blanks |-> 2] }

\* the [batch, beam, max blanks] tensor of per-blank log-probabilities that
\* goes with num_blanks: entry j of beam k is -(j + 1) / (10 (k + 1))
PerBlank(num_blanks) ==
    [b \in BeamItems |-> [k \in Beams |->
        [j \in 0..(Max2(num_blanks) - 1) |-> Float32(-(j + 1), 10 * (k + 1))]]]

\* the tensors of a call in which beam (b, k) takes extension ext[b][k]
CallArgs(ext, beam_idx, became_inactive_logps) ==
    LET num_blanks == [b \in BeamItems |-> [k \in Beams |-> ext[b][k].num_blanks]]
    IN  [ labels      |-> [b \in BeamItems |-> [k \in Beams |-> ext[b][k].label]],
          label_logps |-> [b \in BeamItems |-> [k \in Beams |-> ext[b][k].label_logp]],
          blank_logps |-> [b \in BeamItems |-> [k \in Beams |-> ext[b][k].blank_logp]],
          num_blanks  |-> num_blanks,
          blank_logps_per_blank |-> PerBlank(num_blanks),
          beam_idx    |-> beam_idx,
          became_inactive_logps |-> became_inactive_logps ]

\* beam_idx that keeps every beam in its slot
IdentityBeams == [b \in BeamItems |-> [k \in Beams |-> k]]

AllInactive == [b \in BeamItems |-> [k \in Beams |-> NegInf]]

NoArgs == CallArgs([b \in BeamItems |-> [k \in Beams |-> CHOOSE e \in Extensions : e.num_blanks = 0]],
                   IdentityBeams, AllInactive)

GreedyIdle ==
    /\ hyps = BatchedHyps(BatchSize, 1)
    /\ twin = BatchedHyps(BatchSize, 1)
    /\ appended = [b \in Items |-> <<>>]
    /\ error = "none"
    /\ returned = NothingReturned

BeamIdle ==
    /\ beam = BeamBatchedHyps(BeamBatch, BeamSize, 1)
    /\ call = [op |-> "__init__", before |-> beam, args |-> NoArgs,
               raised |-> "none", result |-> <<>>]
    /\ clean = TRUE

\* logits_dim the alignment buffer is constructed with
LogitsDim == 1

NothingBuilt == [class |-> "none", batch_size |-> 0, init_length |-> 0, options |-> <<>>, raised |-> "none", object |-> <<>>]

NothingHeld == [alias |-> FALSE, value |-> <<>>]

OtherIdle ==
    /\ align = BatchedAlignments(BatchSize, LogitsDim, 1, TRUE, FALSE, FALSE)
    /\ built = NothingBuilt
    /\ step = [op |-> "__init__", u |-> <<>>]
    /\ held = NothingHeld

TotalLength(self) ==
    LET RECURSIVE Sum(_)
        Sum(S) == IF S = {} THEN 0
                  ELSE LET b == Min(S) IN self.current_lengths[b] + Sum(S \ {b})
    IN  Sum(DOMAIN self.current_lengths)

\* a logical update of one decoding step: the active items and, for every
\* item of the batch, the label, frame index and score increment of the step.
\* The full-batch tensors of the mask path hold a value for inactive items
\* too: the largest label and frame index.
Updates ==
    {u \in [act : SUBSET Items, lab : [Items -> Labels], tim : [Items -> Times],
            sc : [Items -> ScoreIncs]] :
        \A b \in Items \ u.act : u.lab[b] = Max(Labels) /\ u.tim[b] = Max(Times)
                                    /\ u.sc[b] = Max(ScoreIncs)}

\* the arguments of the index path for a logical update
IndexArgs(u) ==
    LET ai == SetToSeq(u.act)
    IN  [active_indices |-> ai,
         labels         |-> [p \in DOMAIN ai |-> u.lab[ai[p]]],
         time_indices   |-> [p \in DOMAIN ai |-> u.tim[ai[p]]],
         scores         |-> [p \in DOMAIN ai |-> u.sc[ai[p]]]]

\* the arguments of the mask path for a logical update
MaskArgs(u) ==
    [active_mask  |-> [b \in Items |-> b \in u.act],
     labels       |-> u.lab,
     time_indices |-> u.tim,
     scores       |-> u.sc]

ByIndex(self, u) ==
    LET a == IndexArgs(u)
    IN  add_results_(self, a.active_indices, a.labels, a.time_indices, a.scores)

ByMask(self, u) ==
    LET a == MaskArgs(u)
    IN  add_results_masked_(self, a.active_mask, a.labels, a.time_indices, a.scores)

ByIndexRaises(self, u) ==
    /\ u.act # {}
    /\ add_results_no_checks_raises(add_results_storage(self, SetToSeq(u.act)), SetToSeq(u.act))

ByMaskRaises(self, u) ==
    add_results_masked_no_checks_raises(
        add_results_masked_storage(self, [b \in Items |-> b \in u.act]))

Logged(u) ==
    [b \in Items |-> IF b \in u.act THEN Append(appended[b], <<u.lab[b], u.tim[b]>>)
                     ELSE appended[b]]

\* ------------------------------------------------------------------------
\* Greedy buffer: append_by_index, append_by_mask, clear, to_hypotheses
\* ------------------------------------------------------------------------
InitGreedy ==
    /\ \E n \in InitLengths : hyps = BatchedHyps(BatchSize, n)
    /\ twin = BatchedHyps(BatchSize, 1)
    /\ appended = [b \in Items |-> <<>>]
    /\ error = "none"
    /\ returned = NothingReturned
    /\ BeamIdle
    /\ OtherIdle

AddResults ==
    \E u \in Updates :
        /\ error = "none"
        /\ TotalLength(hyps) + Cardinality(u.act) <= MaxTotal
        /\ hyps' = ByIndex(hyps, u)
        /\ error' = IF ByIndexRaises(hyps, u) THEN "IndexError" ELSE "none"
        /\ appended' = IF ByIndexRaises(hyps, u) THEN appended ELSE Logged(u)
        /\ returned' = NothingReturned
        /\ UNCHANGED <<twin, beam_vars, other_vars>>

AddResultsMasked ==
    \E u \in Updates :
        /\ error = "none"
        /\ TotalLength(hyps) + Cardinality(u.act) <= MaxTotal
        /\ hyps' = ByMask(hyps, u)
        /\ error' = IF ByMaskRaises(hyps, u) THEN "IndexError" ELSE "none"
        /\ appended' = IF ByMaskRaises(hyps, u) THEN appended ELSE Logged(u)
        /\ returned' = NothingReturned
        /\ UNCHANGED <<twin, beam_vars, other_vars>>

Clear ==
    /\ error = "none"
    /\ hyps' = clear_(hyps)
    /\ appended' = [b \in Items |-> <<>>]
    /\ returned' = NothingReturned
    /\ UNCHANGED <<twin, error, beam_vars, other_vars>>

ToHypotheses ==
    \E batch_size \in {NoBatchSize} \cup {<<n>> : n \in 1..(BatchSize + 1)} :
        /\ error = "none"
        /\ returned' = IF batched_hyps_to_hypotheses_raises(hyps, batch_size)
                       THEN [called |-> TRUE, batch_size |-> batch_size,
                             raised |-> "AssertionError", value |-> <<>>]
                       ELSE [called |-> TRUE, batch_size |-> batch_size, raised |-> "none",
                             value |-> batched_hyps_to_hypotheses(hyps, batch_size)]
        /\ UNCHANGED <<hyps, twin, appended, error, beam_vars, other_vars>>

NextGreedy == AddResults \/ AddResultsMasked \/ Clear \/ ToHypotheses

SpecGreedy == InitGreedy /\ [][NextGreedy]_vars

\* ------------------------------------------------------------------------
\* Greedy buffer with the unchecked appends called directly as well: they
\* write at the cursors without growing the storage
\* ------------------------------------------------------------------------
\* most entries the buffer holds after a direct call
MaxDirectTotal == 3

\* add_results_no_checks_ called directly
AddResultsNoChecks ==
    \E u \in Updates :
        LET a == IndexArgs(u)
            raises == add_results_no_checks_raises(hyps, a.active_indices)
        IN  /\ error = "none"
            /\ TotalLength(hyps) + Cardinality(u.act) <= MaxDirectTotal
            /\ hyps' = add_results_no_checks_(hyps, a.active_indices, a.labels,
                                              a.time_indices, a.scores)
            /\ error' = IF raises THEN "IndexError" ELSE "none"
            /\ appended' = IF raises THEN appended ELSE Logged(u)
            /\ returned' = NothingReturned
            /\ UNCHANGED <<twin, beam_vars, other_vars>>

\* add_results_masked_no_checks_ called directly
AddResultsMaskedNoChecks ==
    \E u \in Updates :
        LET a == MaskArgs(u)
            raises == add_results_masked_no_checks_raises(hyps)
        IN  /\ error = "none"
            /\ TotalLength(hyps) + Cardinality(u.act) <= MaxDirectTotal
            /\ hyps' = add_results_masked_no_checks_(hyps, a.active_mask, a.labels,
                                                     a.time_indices, a.scores)
            /\ error' = IF raises THEN "IndexError" ELSE "none"
            /\ appended' = IF raises THEN appended ELSE Logged(u)
            /\ returned' = NothingReturned
            /\ UNCHANGED <<twin, beam_vars, other_vars>>

NextDirect == NextGreedy \/ AddResultsNoChecks \/ AddResultsMaskedNoChecks

SpecDirect == InitGreedy /\ [][NextDirect]_vars

\* ------------------------------------------------------------------------
\* Index path and mask path on the same logical updates
\* ------------------------------------------------------------------------
InitEquiv ==
    /\ \E n \in InitLengths :
          /\ hyps = BatchedHyps(BatchSize, n)
          /\ twin = BatchedHyps(BatchSize, n)
    /\ appended = [b \in Items |-> <<>>]
    /\ error = "none"
    /\ returned = NothingReturned
    /\ BeamIdle
    /\ OtherIdle

\* one decoding step: hyps takes it by index, twin by mask
EquivStep ==
    \E u \in Updates :
        /\ error = "none"
        /\ TotalLength(hyps) + Cardinality(u.act) <= MaxTotal
        /\ hyps' = ByIndex(hyps, u)
        /\ twin' = ByMask(twin, u)
        /\ error' = IF ByIndexRaises(hyps, u) \/ ByMaskRaises(twin, u)
                    THEN "IndexError" ELSE "none"
        /\ appended' = Logged(u)
        /\ UNCHANGED <<returned, beam_vars, other_vars>>

EquivClear ==
    /\ error = "none"
    /\ hyps' = clear_(hyps)
    /\ twin' = clear_(twin)
    /\ appended' = [b \in Items |-> <<>>]
    /\ UNCHANGED <<error, returned, beam_vars, other_vars>>

NextEquiv == EquivStep \/ EquivClear

SpecEquiv == InitEquiv /\ [][NextEquiv]_vars

\* ------------------------------------------------------------------------
\* A buffer growing from capacity 1 next to a pre-sized buffer
\* ------------------------------------------------------------------------
InitGrowth ==
    /\ hyps = BatchedHyps(BatchSize, 1)
    /\ \E n \in {MaxTotal, MaxTotal + 1} : twin = BatchedHyps(BatchSize, n)
    /\ appended = [b \in Items |-> <<>>]
    /\ error = "none"
    /\ returned = NothingReturned
    /\ BeamIdle
    /\ OtherIdle

GrowthStepIndex ==
    \E u \in Updates :
        /\ error = "none"
        /\ TotalLength(hyps) + Cardinality(u.act) <= MaxTotal
        /\ hyps' = ByIndex(hyps, u)
        /\ twin' = ByIndex(twin, u)
        /\ error' = IF ByIndexRaises(hyps, u) \/ ByIndexRaises(twin, u)
                    THEN "IndexError" ELSE "none"
        /\ appended' = Logged(u)
        /\ UNCHANGED <<returned, beam_vars, other_vars>>

GrowthStepMasked ==
    \E u \in Updates :
        /\ error = "none"
        /\ TotalLength(hyps) + Cardinality(u.act) <= MaxTotal
        /\ hyps' = ByMask(hyps, u)
        /\ twin' = ByMask(twin, u)
        /\ error' = IF ByMaskRaises(hyps, u) \/ ByMaskRaises(twin, u)
                    THEN "IndexError" ELSE "none"
        /\ appended' = Logged(u)
        /\ UNCHANGED <<returned, beam_vars, other_vars>>

NextGrowth == GrowthStepIndex \/ GrowthStepMasked

SpecGrowth == InitGrowth /\ [][NextGrowth]_vars

\* ------------------------------------------------------------------------
\* Beam buffer during a search: append_labels, update_beam, clear_
\* ------------------------------------------------------------------------
\* longest full trace a call may produce
MaxFullLength == 4
InitBeam ==
    /\ GreedyIdle
    /\ OtherIdle
    /\ \E n \in InitLengths : beam = BeamBatchedHyps(BeamBatch, BeamSize, n)
    /\ call = [op |-> "__init__", before |-> beam, args |-> NoArgs,
               raised |-> "none", result |-> <<>>]
    /\ clean = TRUE

\* every beam's full trace stays within n entries after the extension
FitsFullLength(self, num_blanks, n) ==
    \A b \in BeamItems : \A k \in Beams :
        self._full_current_lengths[b][k] + num_blanks[b][k] + 1 <= n

\* append_labels with every beam taking one of the extensions
DoAppendLabels(n) ==
    \E ext \in [BeamItems -> [Beams -> Extensions]] :
        LET a == CallArgs(ext, IdentityBeams, AllInactive)
            r == append_labels(beam, a.labels, a.label_logps, a.blank_logps,
                               a.blank_logps_per_blank, a.num_blanks)
        IN  /\ FitsFullLength(beam, a.num_blanks, n)
            /\ beam' = r.obj
            /\ call' = [op |-> "append_labels", before |-> beam, args |-> a,
                        raised |-> r.raised, result |-> <<>>]
            /\ clean' = (clean /\ r.raised = "none")
            /\ UNCHANGED <<greedy_vars, other_vars>>

\* update_beam with any beam_idx and every beam taking one of the extensions
DoUpdateBeam(n) ==
    \E ext \in [BeamItems -> [Beams -> Extensions]], beam_idx \in [BeamItems -> [Beams -> Beams]] :
        LET a == CallArgs(ext, beam_idx, AllInactive)
            r == update_beam(beam, a.labels, a.label_logps, a.blank_logps,
                             a.blank_logps_per_blank, a.num_blanks, a.beam_idx)
        IN  /\ FitsFullLength(update_beam_reorder(beam, beam_idx), a.num_blanks, n)
            /\ beam' = r.obj
            /\ call' = [op |-> "update_beam", before |-> beam, args |-> a,
                        raised |-> r.raised, result |-> <<>>]
            /\ clean' = (clean /\ r.raised = "none")
            /\ UNCHANGED <<greedy_vars, other_vars>>

\* add_completed; the terminal extension is the same for every beam of the call
DoAddCompleted(n) ==
    \E ext \in {[b \in BeamItems |-> [k \in Beams |-> e]] : e \in Extensions},
       beam_idx \in [BeamItems -> [Beams -> Beams]],
       became_inactive_logps \in [BeamItems -> [Beams -> {NegInf, Float32(-1, 1)}]] :
        LET a == CallArgs(ext, beam_idx, became_inactive_logps)
            r == add_completed(beam, a.labels, a.label_logps, a.blank_logps, a.num_blanks,
                               a.beam_idx, a.became_inactive_logps, a.blank_logps_per_blank)
        IN  /\ \A b \in BeamItems : Len(r.best_hyps[b]) <= n
            /\ beam' = r
            /\ call' = [op |-> "add_completed", before |-> beam, args |-> NoArgs,
                        raised |-> "none", result |-> <<>>]
            /\ UNCHANGED <<clean, greedy_vars, other_vars>>

AppendLabels == DoAppendLabels(MaxFullLength)

UpdateBeam == DoUpdateBeam(MaxFullLength)

GetBestHyps ==
    /\ call' = [op |-> "get_best_hyps", before |-> beam, args |-> NoArgs,
                raised |-> IF get_best_hyps_raises(beam) THEN "IndexError" ELSE "none",
                result |-> IF get_best_hyps_raises(beam) THEN <<>> ELSE get_best_hyps(beam)]
    /\ UNCHANGED <<beam, clean, greedy_vars, other_vars>>

BeamClear ==
    /\ beam' = BeamBatchedHyps_clear_(beam)
    /\ call' = [op |-> "clear_", before |-> beam, args |-> NoArgs,
                raised |-> "none", result |-> <<>>]
    /\ clean' = FALSE
    /\ UNCHANGED <<greedy_vars, other_vars>>

NextBeam == AppendLabels \/ UpdateBeam \/ BeamClear

SpecBeam == InitBeam /\ [][NextBeam]_vars

\* ------------------------------------------------------------------------
\* Beam buffer driven by append_labels and update_beam only
\* ------------------------------------------------------------------------
NextTrace == AppendLabels \/ UpdateBeam

SpecTrace == InitBeam /\ [][NextTrace]_vars

\* ------------------------------------------------------------------------
\* End of a beam search: the beams are extended, then add_completed stores
\* hypotheses and get_best_hyps fetches the best ones
\* ------------------------------------------------------------------------
\* longest full trace before the completions start
MaxBestFull == 2
\* most hypotheses best_hyps[b] may hold
MaxCompleted == 2

NothingCompleted == \A b \in BeamItems : beam.best_hyps[b] = <<>>

BestAppendLabels == NothingCompleted /\ DoAppendLabels(MaxBestFull)

BestUpdateBeam == NothingCompleted /\ DoUpdateBeam(MaxBestFull)

AddCompleted == DoAddCompleted(MaxCompleted)

NextBest == BestAppendLabels \/ BestUpdateBeam \/ AddCompleted \/ GetBestHyps

SpecBest == InitBeam /\ [][NextBest]_vars

\* ------------------------------------------------------------------------
\* Ranking of completed hypotheses: a buffer of two batch items collects
\* hypotheses through add_completed and get_best_hyps picks the best of
\* each item
\* ------------------------------------------------------------------------
\* batch size the ranked buffer is constructed with
RankBatch == 2
\* most hypotheses best_hyps may hold, over the batch
MaxRanked == 4

RankItems == 0..(RankBatch - 1)

\* log-probabilities of the terminal labels of the beams of an item in a
\* call: equal for the two beams, or a smaller number and nan
RankLogps ==
    { [k \in Beams |-> Float32(-1, 2)],
      [k \in Beams |-> IF k = 0 THEN Float32(-1, 1) ELSE NaN] }

\* the tensors of an add_completed call without blanks before the terminal
\* label: beam k ends with label 3 + 2k and log-probability row[k], and the
\* beams in done of item b became inactive
RankArgs(row, b, done) ==
    [ labels      |-> [x \in RankItems |-> [k \in Beams |-> 3 + 2 * k]],
      label_logps |-> [x \in RankItems |-> row],
      blank_logps |-> Full2(RankBatch, BeamSize, Float32(-1, 10)),
      num_blanks  |-> Full2(RankBatch, BeamSize, 0),
      blank_logps_per_blank |-> Full3(RankBatch, BeamSize, 0, FloatZero),
      beam_idx    |-> [x \in RankItems |-> [k \in Beams |-> k]],
      became_inactive_logps |->
          [x \in RankItems |-> [k \in Beams |->
              IF x = b /\ k \in done THEN Float32(-1, 1) ELSE NegInf]] ]

\* the number of hypotheses the buffer holds, over the batch
TotalCompleted(self) ==
    LET RECURSIVE Sum(_)
        Sum(S) == IF S = {} THEN 0
                  ELSE LET b == CHOOSE x \in S : TRUE
                       IN  Len(self.best_hyps[b]) + Sum(S \ {b})
    IN  Sum(DOMAIN self.best_hyps)

InitRank ==
    /\ GreedyIdle
    /\ OtherIdle
    /\ beam = BeamBatchedHyps(RankBatch, BeamSize, 1)
    /\ call = [op |-> "__init__", before |-> beam, args |-> NoArgs,
               raised |-> "none", result |-> <<>>]
    /\ clean = TRUE

\* add_completed on the ranked buffer
RankAddCompleted ==
    \E row \in RankLogps, b \in RankItems, done \in SUBSET Beams :
        \E a \in {RankArgs(row, b, done)} :
            \E r \in {add_completed(beam, a.labels, a.label_logps, a.blank_logps, a.num_blanks,
                                     a.beam_idx, a.became_inactive_logps,
                                     a.blank_logps_per_blank)} :
                /\ TotalCompleted(r) <= MaxRanked
                /\ beam' = r
                /\ call' = [op |-> "add_completed", before |-> beam, args |-> NoArgs,
                            raised |-> "none", result |-> <<>>]
                /\ UNCHANGED <<clean, greedy_vars, other_vars>>

NextRank == RankAddCompleted \/ GetBestHyps

SpecRank == InitRank /\ [][NextRank]_vars

\* ------------------------------------------------------------------------
\* Greedy decoding with alignments: every step stores a frame (blank or
\* label) in the alignment buffer and the non-blank labels in the greedy
\* buffer; to_hypotheses is called with the alignment buffer
\* ------------------------------------------------------------------------
\* most frames the alignment buffer may hold, over the batch
MaxAlignTotal == 3
\* the blank label of a frame
Blank == 9

AlignLabels == {3, Blank}

\* a decoding step: the active items and, for every item, the label (blank
\* or not) and the frame index; inactive items carry the largest values
AlignUpdates ==
    {u \in [act : SUBSET Items, lab : [Items -> AlignLabels], tim : [Items -> Times],
            sc : [Items -> ScoreIncs]] :
        \A b \in Items \ u.act : u.lab[b] = Max(AlignLabels) /\ u.tim[b] = Max(Times)}

\* the part of a step the greedy buffer takes: active items with a label
Emitted(u) == [u EXCEPT !.act = {b \in u.act : u.lab[b] # Blank}]

\* the logits and the confidence that go with a frame of item b
FrameLogits(u, b) == [d \in 0..(LogitsDim - 1) |-> 10 * u.tim[b] + u.lab[b]]

FrameConfidence(u, b) == u.tim[b] + 1

\* the confidence that goes with a frame of item b in a call on self: a pair
\* (frame confidence, duration confidence) when self stores both
ConfidenceFor(self, u, b) ==
    IF self.with_duration_confidence
    THEN [d \in 0..1 |-> FrameConfidence(u, b) + 10 * d]
    ELSE FrameConfidence(u, b)

\* a step through the index path of the alignment buffer; logits and labels
\* are passed when given holds, and omitted otherwise
AlignByIndex(self, u, given) ==
    LET ai == SetToSeq(u.act)
    IN  BatchedAlignments_add_results_(self, ai,
            [p \in DOMAIN ai |-> u.tim[ai[p]]],
            IF given /\ ai # <<>> THEN [p \in DOMAIN ai |-> FrameLogits(u, ai[p])] ELSE None,
            IF given /\ ai # <<>> THEN [p \in DOMAIN ai |-> u.lab[ai[p]]] ELSE None,
            [p \in DOMAIN ai |-> ConfidenceFor(self, u, ai[p])])

\* a step through the mask path of the alignment buffer
AlignByMask(self, u, given) ==
    BatchedAlignments_add_results_masked_(self, [b \in Items |-> b \in u.act], u.tim,
        IF given THEN [b \in Items |-> FrameLogits(u, b)] ELSE None,
        IF given THEN u.lab ELSE None,
        [b \in Items |-> ConfidenceFor(self, u, b)])

\* what batched_hyps_to_hypotheses leaves of a buffer passed to it: the
\* function only reads its arguments
to_hypotheses_leaves(buffer) == buffer

InitAlign ==
    /\ hyps = BatchedHyps(BatchSize, 1)
    /\ twin = BatchedHyps(BatchSize, 1)
    /\ appended = [b \in Items |-> <<>>]
    /\ error = "none"
    /\ returned = NothingReturned
    /\ BeamIdle
    /\ \E store_alignments \in BOOLEAN, store_frame_confidence \in BOOLEAN,
          with_duration_confidence \in BOOLEAN :
          /\ store_alignments \/ store_frame_confidence
          /\ with_duration_confidence => (store_alignments /\ store_frame_confidence)
          /\ align = BatchedAlignments(BatchSize, LogitsDim, 1, store_alignments,
                                       store_frame_confidence, with_duration_confidence)
    /\ built = NothingBuilt
    /\ step = [op |-> "__init__", u |-> <<>>]
    /\ held = NothingHeld

AlignStepIndex ==
    \E u \in AlignUpdates, given \in {TRUE} :
        /\ error = "none"
        /\ TotalLength(align) + Cardinality(u.act) <= MaxAlignTotal
        /\ align' = AlignByIndex(align, u, given)
        /\ hyps' = ByIndex(hyps, Emitted(u))
        /\ error' = IF \/ BatchedAlignments_add_results_raises(align, SetToSeq(u.act))
                       \/ ByIndexRaises(hyps, Emitted(u))
                    THEN "IndexError" ELSE "none"
        /\ appended' = Logged(Emitted(u))
        /\ returned' = NothingReturned
        /\ UNCHANGED <<twin, beam_vars, built, step, held>>

AlignStepMasked ==
    \E u \in AlignUpdates, given \in {TRUE} :
        /\ error = "none"
        /\ TotalLength(align) + Cardinality(u.act) <= MaxAlignTotal
        /\ align' = AlignByMask(align, u, given)
        /\ hyps' = ByMask(hyps, Emitted(u))
        /\ error' = IF \/ BatchedAlignments_add_results_masked_raises(align, [b \in Items |-> b \in u.act])
                       \/ ByMaskRaises(hyps, Emitted(u))
                    THEN "IndexError" ELSE "none"
        /\ appended' = Logged(Emitted(u))
        /\ returned' = NothingReturned
        /\ UNCHANGED <<twin, beam_vars, built, step, held>>

\* batched_hyps_to_hypotheses(hyps, alignments, batch_size): alignments is
\* the alignment buffer or omitted
AlignToHypotheses ==
    \E batch_size \in {NoBatchSize, <<1>>}, aligned \in BOOLEAN :
        /\ error = "none"
        /\ returned' = [called |-> TRUE, batch_size |-> batch_size, raised |-> "none",
                        alignments |-> aligned, hyps_before |-> hyps, align_before |-> align,
                        value |-> IF aligned
                                  THEN batched_hyps_to_hypotheses_aligned(hyps, align, batch_size)
                                  ELSE batched_hyps_to_hypotheses(hyps, batch_size)]
        /\ hyps' = to_hypotheses_leaves(hyps)
        /\ align' = IF aligned THEN to_hypotheses_leaves(align) ELSE align
        /\ UNCHANGED <<twin, appended, error, beam_vars, built, step, held>>

NextAlign == AlignStepIndex \/ AlignStepMasked \/ AlignToHypotheses

SpecAlign == InitAlign /\ [][NextAlign]_vars

\* ------------------------------------------------------------------------
\* Construction of the three buffers
\* ------------------------------------------------------------------------
\* the checks at the head of BatchedHyps.__init__: ValueError
BatchedHyps_init_raises(batch_size, init_length) == init_length <= 0 \/ batch_size <= 0

\* a head of __init__ that checks init_length only
init_checks_length_only(batch_size, init_length) == init_length <= 0

\* the checks at the head of BatchedAlignments.__init__: ValueError
BatchedAlignments_init_raises(batch_size, init_length) == init_length <= 0 \/ batch_size <= 0

\* the checks at the head of BeamBatchedHyps.__init__: ValueError
BeamBatchedHyps_init_raises(batch_size, init_length) == init_length <= 0 \/ batch_size <= 0

\* batch_size and init_length arguments tried, valid and invalid
ArgSizes == -1..2

ArgLengths == -1..3

Built(class, batch_size, init_length, options, raises, object) ==
    [class |-> class, batch_size |-> batch_size, init_length |-> init_length,
     options |-> options,
     raised |-> IF raises THEN "ValueError" ELSE "none",
     object |-> IF raises THEN <<>> ELSE object]

InitConstruct ==
    /\ GreedyIdle
    /\ BeamIdle
    /\ OtherIdle

ConstructBatchedHyps ==
    \E batch_size \in ArgSizes, init_length \in ArgLengths :
        /\ built' = Built("BatchedHyps", batch_size, init_length, <<>>,
                          BatchedHyps_init_raises(batch_size, init_length),
                          BatchedHyps(batch_size, init_length))
        /\ UNCHANGED <<greedy_vars, beam_vars, align, step, held>>

ConstructBatchedAlignments ==
    \E batch_size \in ArgSizes, init_length \in ArgLengths,
       store_alignments \in BOOLEAN, store_frame_confidence \in BOOLEAN,
       with_duration_confidence \in BOOLEAN :
        /\ built' = Built("BatchedAlignments", batch_size, init_length,
                          <<store_alignments, store_frame_confidence,
                            with_duration_confidence>>,
                          BatchedAlignments_init_raises(batch_size, init_length),
                          BatchedAlignments(batch_size, LogitsDim, init_length,
                                            store_alignments, store_frame_confidence,
                                            with_duration_confidence))
        /\ UNCHANGED <<greedy_vars, beam_vars, align, step, held>>

ConstructBeamBatchedHyps ==
    \E batch_size \in ArgSizes, init_length \in ArgLengths, beam_size \in 1..BeamSize :
        /\ built' = Built("BeamBatchedHyps", batch_size, init_length, <<beam_size>>,
                          BeamBatchedHyps_init_raises(batch_size, init_length),
                          BeamBatchedHyps(batch_size, beam_size, init_length))
        /\ UNCHANGED <<greedy_vars, beam_vars, align, step, held>>

NextConstruct == ConstructBatchedHyps \/ ConstructBatchedAlignments \/ ConstructBeamBatchedHyps

SpecConstruct == InitConstruct /\ [][NextConstruct]_vars

\* ------------------------------------------------------------------------
\* Returned hypotheses while the greedy buffer is used further: y_sequence
\* and timestep of a Hypothesis are slices transcript[i, :n] and
\* timesteps[i, :n], which are views of the buffer's storage
\* ------------------------------------------------------------------------
\* most entries the greedy buffer may hold, over the batch, in this scenario
MaxViewTotal == 2

\* what views of the first Len(value[p].y_sequence) entries of every row read
\* from the storage of self
views_read(self, value) ==
    [p \in DOMAIN value |->
        [y_sequence |-> Slice(self.transcript[p - 1], Len(value[p].y_sequence)),
         timestep   |-> Slice(self.timesteps[p - 1], Len(value[p].timestep))]]

\* the views right after batched_hyps_to_hypotheses returned hypotheses
views_of(hypotheses) ==
    [alias |-> TRUE,
     value |-> [p \in DOMAIN hypotheses |->
                  [y_sequence |-> hypotheses[p].y_sequence,
                   timestep   |-> hypotheses[p].timestep]]]

\* the views after a method took the buffer from before to after: in-place
\* stores and fill_ write the storage the views read; _allocate_more (a
\* torch.cat, before any store of the call) gives the buffer new storage and
\* leaves the old one to the views
views_after(views, before, after) ==
    IF ~views.alias THEN views
    ELSE IF after._max_length # before._max_length
         THEN [alias |-> FALSE, value |-> views.value]
         ELSE [alias |-> TRUE, value |-> views_read(after, views.value)]

\* the decoding steps of this scenario: any label, the frame index fixed
ViewUpdates == {u \in Updates : \A b \in Items : u.tim[b] = Max(Times)}

InitViews ==
    /\ hyps = BatchedHyps(BatchSize, 1)
    /\ twin = BatchedHyps(BatchSize, 1)
    /\ appended = [b \in Items |-> <<>>]
    /\ error = "none"
    /\ returned = NothingReturned
    /\ BeamIdle
    /\ OtherIdle

ViewAddResults ==
    \E u \in ViewUpdates :
        /\ error = "none"
        /\ TotalLength(hyps) + Cardinality(u.act) <= MaxViewTotal
        /\ hyps' = ByIndex(hyps, u)
        /\ error' = IF ByIndexRaises(hyps, u) THEN "IndexError" ELSE "none"
        /\ held' = views_after(held, hyps, hyps')
        /\ UNCHANGED <<twin, appended, returned, beam_vars, align, built, step>>

ViewAddResultsMasked ==
    \E u \in ViewUpdates :
        /\ error = "none"
        /\ TotalLength(hyps) + Cardinality(u.act) <= MaxViewTotal
        /\ hyps' = ByMask(hyps, u)
        /\ error' = IF ByMaskRaises(hyps, u) THEN "IndexError" ELSE "none"
        /\ held' = views_after(held, hyps, hyps')
        /\ UNCHANGED <<twin, appended, returned, beam_vars, align, built, step>>

ViewClear ==
    /\ error = "none"
    /\ hyps' = clear_(hyps)
    /\ held' = views_after(held, hyps, hyps')
    /\ UNCHANGED <<twin, appended, error, returned, beam_vars, align, built, step>>

\* batched_hyps_to_hypotheses(hyps), called once
ViewToHypotheses ==
    /\ error = "none"
    /\ ~returned.called
    /\ returned' = [called |-> TRUE, batch_size |-> NoBatchSize, raised |-> "none",
                    value |-> batched_hyps_to_hypotheses(hyps, NoBatchSize)]
    /\ held' = views_of(batched_hyps_to_hypotheses(hyps, NoBatchSize))
    /\ UNCHANGED <<hyps, twin, appended, error, beam_vars, align, built, step>>

NextViews == ViewAddResults \/ ViewAddResultsMasked \/ ViewClear \/ ViewToHypotheses

SpecViews == InitViews /\ [][NextViews]_vars

\* ------------------------------------------------------------------------
\* Greedy buffer, one call at a time: twin is the buffer before the last
\* call, step the call and its arguments
\* ------------------------------------------------------------------------
\* most entries the greedy buffer may hold, over the batch, in this scenario
MaxFrameTotal == 3

\* a call without tensor arguments
NoUpdate ==
    [act |-> {}, lab |-> [b \in Items |-> Max(Labels)], tim |-> [b \in Items |-> Max(Times)],
     sc |-> [b \in Items |-> Max(ScoreIncs)]]

InitFrame ==
    /\ \E n \in InitLengths : hyps = BatchedHyps(BatchSize, n)
    /\ twin = hyps
    /\ appended = [b \in Items |-> <<>>]
    /\ error = "none"
    /\ returned = NothingReturned
    /\ BeamIdle
    /\ align = BatchedAlignments(BatchSize, LogitsDim, 1, TRUE, FALSE, FALSE)
    /\ built = NothingBuilt
    /\ step = [op |-> "__init__", u |-> NoUpdate]
    /\ held = NothingHeld

FrameAddResults ==
    \E u \in Updates :
        /\ error = "none"
        /\ TotalLength(hyps) + Cardinality(u.act) <= MaxFrameTotal
        /\ hyps' = ByIndex(hyps, u)
        /\ twin' = hyps
        /\ step' = [op |-> "add_results_", u |-> u]
        /\ error' = IF ByIndexRaises(hyps, u) THEN "IndexError" ELSE "none"
        /\ UNCHANGED <<appended, returned, beam_vars, align, built, held>>

FrameAddResultsMasked ==
    \E u \in Updates :
        /\ error = "none"
        /\ TotalLength(hyps) + Cardinality(u.act) <= MaxFrameTotal
        /\ hyps' = ByMask(hyps, u)
        /\ twin' = hyps
        /\ step' = [op |-> "add_results_masked_", u |-> u]
        /\ error' = IF ByMaskRaises(hyps, u) THEN "IndexError" ELSE "none"
        /\ UNCHANGED <<appended, returned, beam_vars, align, built, held>>

FrameClear ==
    /\ error = "none"
    /\ hyps' = clear_(hyps)
    /\ twin' = hyps
    /\ step' = [op |-> "clear_", u |-> NoUpdate]
    /\ UNCHANGED <<appended, error, returned, beam_vars, align, built, held>>

NextFrame == FrameAddResults \/ FrameAddResultsMasked \/ FrameClear

SpecFrame == InitFrame /\ [][NextFrame]_vars

\* ------------------------------------------------------------------------
\* Alignment buffer, one call at a time: step is the last call with its
\* active items and frame indices, and which optional tensors were passed
\* ------------------------------------------------------------------------
\* most frames the alignment buffer may hold, over the batch, in this scenario
MaxRecordTotal == 2

\* the optional tensors of a call
Optional == {"logits", "labels", "confidence"}

\* the optional tensors passed in a call: none, logits alone, or all
PassedSets == {{}, {"logits"}, Optional}

\* add_results_(active_indices, time_indices, logits, labels, confidence) for
\* a decoding step u, the optional tensors named in passed being given
RecordByIndex(self, u, passed) ==
    LET ai == SetToSeq(u.act)
    IN  BatchedAlignments_add_results_(self, ai,
            [p \in DOMAIN ai |-> u.tim[ai[p]]],
            IF "logits" \in passed /\ ai # <<>>
            THEN [p \in DOMAIN ai |-> FrameLogits(u, ai[p])] ELSE None,
            IF "labels" \in passed /\ ai # <<>>
            THEN [p \in DOMAIN ai |-> u.lab[ai[p]]] ELSE None,
            IF "confidence" \in passed /\ ai # <<>>
            THEN [p \in DOMAIN ai |-> ConfidenceFor(self, u, ai[p])] ELSE None)

\* add_results_masked_(active_mask, time_indices, logits, labels, confidence)
RecordByMask(self, u, passed) ==
    BatchedAlignments_add_results_masked_(self, [b \in Items |-> b \in u.act], u.tim,
        IF "logits" \in passed THEN [b \in Items |-> FrameLogits(u, b)] ELSE None,
        IF "labels" \in passed THEN u.lab ELSE None,
        IF "confidence" \in passed THEN [b \in Items |-> ConfidenceFor(self, u, b)] ELSE None)

InitRecord ==
    /\ GreedyIdle
    /\ BeamIdle
    /\ \E store_alignments \in BOOLEAN, store_frame_confidence \in BOOLEAN,
          with_duration_confidence \in BOOLEAN :
          /\ store_alignments = store_frame_confidence
          /\ with_duration_confidence => store_frame_confidence
          /\ align = BatchedAlignments(BatchSize, LogitsDim, 1, store_alignments,
                                       store_frame_confidence, with_duration_confidence)
    /\ built = NothingBuilt
    /\ step = [op |-> "__init__", act |-> {}, tim |-> NoUpdate.tim, passed |-> {}]
    /\ held = NothingHeld

RecordAddResults ==
    \E u \in AlignUpdates, passed \in PassedSets :
        /\ error = "none"
        /\ TotalLength(align) + Cardinality(u.act) <= MaxRecordTotal
        /\ align' = RecordByIndex(align, u, passed)
        /\ error' = IF BatchedAlignments_add_results_raises(align, SetToSeq(u.act))
                    THEN "IndexError" ELSE "none"
        /\ step' = [op |-> "add_results_", act |-> u.act, tim |-> u.tim, passed |-> passed]
        /\ UNCHANGED <<hyps, twin, appended, returned, beam_vars, built, held>>

RecordAddResultsMasked ==
    \E u \in AlignUpdates, passed \in PassedSets :
        /\ error = "none"
        /\ TotalLength(align) + Cardinality(u.act) <= MaxRecordTotal
        /\ align' = RecordByMask(align, u, passed)
        /\ error' = IF BatchedAlignments_add_results_masked_raises(align, [b \in Items |-> b \in u.act])
                    THEN "IndexError" ELSE "none"
        /\ step' = [op |-> "add_results_masked_", act |-> u.act, tim |-> u.tim, passed |-> passed]
        /\ UNCHANGED <<hyps, twin, appended, returned, beam_vars, built, held>>

RecordClear ==
    /\ error = "none"
    /\ align' = BatchedAlignments_clear_(align)
    /\ step' = [op |-> "clear_", act |-> {}, tim |-> NoUpdate.tim, passed |-> {}]
    /\ UNCHANGED <<greedy_vars, beam_vars, built, held>>

\* most frames the buffer holds, over the batch, after a direct call of
\* add_results_masked_no_checks_
MaxRecordDirectTotal == 1

\* add_results_masked_no_checks_ of the alignment buffer called directly: it
\* writes at the cursors of all items without growing the storage
RecordAddResultsMaskedNoChecks ==
    \E u \in AlignUpdates, passed \in PassedSets :
        LET self == align
        IN  /\ error = "none"
            /\ TotalLength(align) + Cardinality(u.act) <= MaxRecordDirectTotal
            /\ align' = BatchedAlignments_add_results_masked_no_checks_(align,
                            [b \in Items |-> b \in u.act], u.tim,
                            IF "logits" \in passed THEN [b \in Items |-> FrameLogits(u, b)]
                            ELSE None,
                            IF "labels" \in passed THEN u.lab ELSE None,
                            IF "confidence" \in passed
                            THEN [b \in Items |-> ConfidenceFor(self, u, b)] ELSE None)
            /\ error' = IF IndexPutRaises(align.timesteps, align._batch_indices,
                                          BatchedAlignments_cursors(align))
                        THEN "IndexError" ELSE "none"
            /\ step' = [op |-> "add_results_masked_no_checks_", act |-> u.act, tim |-> u.tim,
                        passed |-> passed]
            /\ UNCHANGED <<hyps, twin, appended, returned, beam_vars, built, held>>

NextRecord ==
    RecordAddResults \/ RecordAddResultsMasked \/ RecordAddResultsMaskedNoChecks \/ RecordClear

SpecRecord == InitRecord /\ [][NextRecord]_vars

\* ------------------------------------------------------------------------
\* Beam search that goes on after add_completed: step.u[b][k] holds the
\* compacted and full lengths slot (b, k) had when add_completed stored a
\* hypothesis for it
\* ------------------------------------------------------------------------
\* longest full trace a call may produce in this scenario
MaxRetireFull == 2

\* no slot has been finalized
NoneFinalized == [b \in BeamItems |-> [k \in Beams |-> <<>>]]

\* the slots add_completed stores a hypothesis for: the elements idx of
\* beam_idx[batch_idx] that pass its test
add_completed_slots(self, batch_idx, beam_idx, became_inactive_logps) ==
    {beam_idx[batch_idx][j] : j \in {i \in 0..(self.beam_size - 1) :
        add_completed_selects(batch_idx, beam_idx[batch_idx][i], beam_idx,
                              became_inactive_logps)}}

InitRetire ==
    /\ GreedyIdle
    /\ beam = BeamBatchedHyps(BeamBatch, BeamSize, 2)
    /\ call = [op |-> "__init__", before |-> beam, args |-> NoArgs,
               raised |-> "none", result |-> <<>>]
    /\ clean = TRUE
    /\ align = BatchedAlignments(BatchSize, LogitsDim, 1, TRUE, FALSE, FALSE)
    /\ built = NothingBuilt
    /\ step = [op |-> "__init__", u |-> NoneFinalized]
    /\ held = NothingHeld

RetireAppendLabels == DoAppendLabels(MaxRetireFull)

RetireUpdateBeam == DoUpdateBeam(MaxRetireFull)

RetireAddCompleted ==
    \E e \in Extensions, beam_idx \in [BeamItems -> [Beams -> Beams]],
       became_inactive_logps \in [BeamItems -> [Beams -> {NegInf, Float32(-1, 1)}]] :
        LET a == CallArgs([b \in BeamItems |-> [k \in Beams |-> e]], beam_idx,
                          became_inactive_logps)
        IN  /\ step.u = NoneFinalized
            /\ beam' = add_completed(beam, a.labels, a.label_logps, a.blank_logps,
                                     a.num_blanks, a.beam_idx, a.became_inactive_logps,
                                     a.blank_logps_per_blank)
            /\ call' = [op |-> "add_completed", before |-> beam, args |-> a,
                        raised |-> "none", result |-> <<>>]
            /\ step' = [op |-> "add_completed",
                        u |-> [b \in BeamItems |-> [k \in Beams |->
                                 IF k \in add_completed_slots(beam, b, beam_idx,
                                                              became_inactive_logps)
                                 THEN <<beam.current_lengths[b][k],
                                        beam._full_current_lengths[b][k]>>
                                 ELSE <<>>]]]
            /\ UNCHANGED <<clean, greedy_vars, align, built, held>>

NextRetire == RetireAppendLabels \/ RetireUpdateBeam \/ RetireAddCompleted

SpecRetire == InitRetire /\ [][NextRetire]_vars

\* ------------------------------------------------------------------------
\* Beam buffer called with a tensor of the wrong shape: call.result names
\* the malformed argument and its shape
\* ------------------------------------------------------------------------
\* longest full trace a well-formed call may produce in this scenario
MaxShapeFull == 2

\* the arguments of append_labels that the asserts compare
ShapedArgs == {"labels", "label_logps", "blank_logps", "num_blanks"}

\* a [batch, beam] tensor cut to its first column: shape [batch, 1]
Narrow(t) == [b \in DOMAIN t |-> [k \in {0} |-> t[b][0]]]

\* a [batch, beam] tensor with its first column repeated at the end: shape
\* [batch, beam + 1]
Wide(t) ==
    [b \in DOMAIN t |-> [k \in 0..Cardinality(DOMAIN t[b]) |->
        IF k \in DOMAIN t[b] THEN t[b][k] ELSE t[b][0]]]

\* the tensors a with the argument name given the shape named by how
Malformed(a, name, how) ==
    LET f(t) == IF how = "narrow" THEN Narrow(t) ELSE Wide(t)
    IN  [a EXCEPT ![name] = f(@)]

InitShape ==
    /\ GreedyIdle
    /\ OtherIdle
    /\ \E n \in InitLengths : beam = BeamBatchedHyps(BeamBatch, BeamSize, n)
    /\ call = [op |-> "__init__", before |-> beam, args |-> NoArgs,
               raised |-> "none", result |-> <<>>]
    /\ clean = TRUE

\* a well-formed append_labels that returns
ShapeAppendLabels ==
    /\ call.raised = "none"
    /\ DoAppendLabels(MaxShapeFull)

MalformedAppendLabels ==
    \E ext \in [BeamItems -> [Beams -> Extensions]], name \in ShapedArgs,
       how \in {"narrow", "wide"} :
        LET a == Malformed(CallArgs(ext, IdentityBeams, AllInactive), name, how)
            r == append_labels_any(beam, a.labels, a.label_logps, a.blank_logps,
                                   a.blank_logps_per_blank, a.num_blanks)
        IN  /\ call.raised = "none"
            /\ call.result = <<>>
            /\ beam' = r.obj
            /\ call' = [op |-> "append_labels", before |-> beam, args |-> a,
                        raised |-> r.raised, result |-> <<name, how>>]
            /\ clean' = FALSE
            /\ UNCHANGED <<greedy_vars, other_vars>>

MalformedUpdateBeam ==
    \E ext \in [BeamItems -> [Beams -> Extensions]], name \in ShapedArgs,
       how \in {"narrow", "wide"}, beam_idx \in [BeamItems -> [Beams -> Beams]] :
        LET a == Malformed(CallArgs(ext, beam_idx, AllInactive), name, how)
            r == update_beam_any(beam, a.labels, a.label_logps, a.blank_logps,
                                 a.blank_logps_per_blank, a.num_blanks, a.beam_idx)
        IN  /\ call.raised = "none"
            /\ call.result = <<>>
            /\ beam' = r.obj
            /\ call' = [op |-> "update_beam", before |-> beam, args |-> a,
                        raised |-> r.raised, result |-> <<name, how>>]
            /\ clean' = FALSE
            /\ UNCHANGED <<greedy_vars, other_vars>>

NextShape == ShapeAppendLabels \/ MalformedAppendLabels \/ MalformedUpdateBeam

SpecShape == InitShape /\ [][NextShape]_vars

\* ------------------------------------------------------------------------
\* Claims
\* ------------------------------------------------------------------------
\* the logical content of item b: what lies below its write cursor
InRangeLabels(self, b) == Slice(self.transcript[b], self.current_lengths[b])

InRangeTimesteps(self, b) == Slice(self.timesteps[b], self.current_lengths[b])

AppendedLabels(b) == [i \in DOMAIN appended[b] |-> appended[b][i][1]]

AppendedTimes(b) == [i \in DOMAIN appended[b] |-> appended[b][i][2]]

\* C1 (as claimed): after the same logical updates the index-path buffer and
\* the mask-path buffer have identical capacity, current_length, labels,
\* timesteps, score, last_timestep and repeat count.
C1_IdenticalBuffers ==
    /\ hyps._max_length = twin._max_length
    /\ hyps.current_lengths = twin.current_lengths
    /\ hyps.transcript = twin.transcript
    /\ hyps.timesteps = twin.timesteps
    /\ hyps.scores = twin.scores
    /\ hyps.last_timestep = twin.last_timestep
    /\ hyps.last_timestep_lasts = twin.last_timestep_lasts

\* C1 (amended): after the same logical updates the two buffers agree on
\* current_length, on labels and timesteps below each item's write cursor, on
\* score, last_timestep and repeat count of every item; capacity and the cells
\* at or beyond the cursor are not compared.
C1_SameLogicalContent ==
    /\ error = "none"
    /\ hyps.current_lengths = twin.current_lengths
    /\ \A b \in Items :
          /\ InRangeLabels(hyps, b) = InRangeLabels(twin, b)
          /\ InRangeTimesteps(hyps, b) = InRangeTimesteps(twin, b)
    /\ hyps.scores = twin.scores
    /\ hyps.last_timestep = twin.last_timestep
    /\ hyps.last_timestep_lasts = twin.last_timestep_lasts

\* C1 witness: both paths have appended, one item more often than the other,
\* a frame was repeated, and the capacities have come apart
C1_Witness ==
    /\ hyps.current_lengths[0] = 3
    /\ hyps.current_lengths[1] = 1
    /\ twin.current_lengths[0] = 3
    /\ hyps.last_timestep_lasts[0] = 2
    /\ hyps._max_length # twin._max_length

\* C2: growth never loses or shifts data: the buffer grown from capacity 1
\* holds, below every item's cursor, the same labels and timesteps as the
\* pre-sized buffer that took the same appends.
C2_GrowthPreservesData ==
    /\ error = "none"
    /\ hyps.current_lengths = twin.current_lengths
    /\ \A b \in Items :
          /\ InRangeLabels(hyps, b) = InRangeLabels(twin, b)
          /\ InRangeTimesteps(hyps, b) = InRangeTimesteps(twin, b)

\* C2 witness: three entries appended to one item of the buffer that started
\* at capacity 1 and has grown twice, the pre-sized buffer has not grown
C2_Witness ==
    /\ \E b \in Items : hyps.current_lengths[b] >= 3
    /\ hyps._max_length >= 4
    /\ twin._max_length = MaxTotal + 1

\* C3: current_length[b] is the number of append calls (either path) in which
\* b was active since construction or the last clear; it is 0 after clear.
C3_LengthCountsAppends ==
    \A b \in Items : hyps.current_lengths[b] = Len(appended[b])

\* C3 witness: item 0 was active in three appends, item 1 in one
C3_Witness ==
    /\ Len(appended[0]) = 3
    /\ Len(appended[1]) = 1
    /\ hyps.current_lengths[0] = 3

\* C4: under the capacity-checked operations current_length[b] <= capacity
\* for every item, the storage is as wide as the capacity, and no store of an
\* append (active or inactive item) lands at or beyond the capacity (no
\* IndexError).
C4_WithinCapacity ==
    /\ error = "none"
    /\ \A b \in Items :
          /\ hyps.current_lengths[b] <= hyps._max_length
          /\ Width(hyps.transcript[b]) = hyps._max_length
          /\ Width(hyps.timesteps[b]) = hyps._max_length

\* C4 witness: an item fills the grown buffer up to its capacity
C4_Witness ==
    /\ hyps._max_length >= 2
    /\ \E b \in Items : hyps.current_lengths[b] = hyps._max_length

\* C5 (as claimed): every materialized Hypothesis has the item's appended
\* labels and frame indices, and its length field equals current_length[b].
C5_LengthFieldIsCount ==
    returned.called =>
        \A p \in DOMAIN returned.value :
            /\ returned.value[p].y_sequence = AppendedLabels(p - 1)
            /\ returned.value[p].timestep = AppendedTimes(p - 1)
            /\ returned.value[p].length = hyps.current_lengths[p - 1]

\* C5 (amended): every materialized Hypothesis has the item's appended labels
\* and frame indices in order, both of length current_length[b]; the length
\* field is left at its default 0.
C5_MaterializedSequences ==
    returned.called =>
        \A p \in DOMAIN returned.value :
            /\ returned.value[p].y_sequence = AppendedLabels(p - 1)
            /\ returned.value[p].timestep = AppendedTimes(p - 1)
            /\ Len(returned.value[p].y_sequence) = hyps.current_lengths[p - 1]
            /\ Len(returned.value[p].timestep) = hyps.current_lengths[p - 1]
            /\ returned.value[p].length = 0

\* C5 witness: labels [3,5,5] at frames [0,2,2] of item 0 were materialized
C5_Witness ==
    /\ returned.called
    /\ Len(returned.value) = BatchSize
    /\ returned.value[1].y_sequence = <<3, 5, 5>>
    /\ returned.value[1].timestep = <<0, 2, 2>>

\* row new agrees with row old on the first n entries that both hold
PrefixKept(new, old, n) ==
    \A i \in 0..(n - 1) : (i < Width(old) /\ i < Width(new)) => new[i] = old[i]

\* C6 (as claimed): after any sequence of successful append_labels and
\* update_beam calls on a freshly constructed beam buffer, score[b,k] equals
\* (cumulative label log-prob + cumulative blank log-prob) of the beam's
\* lineage divided by full_current_length[b,k].
C6_ScoreIsNormalizedSum ==
    clean =>
        \A b \in BeamItems : \A k \in Beams :
            beam._full_current_lengths[b][k] > 0 =>
                beam.scores[b][k] =
                    FloatDivInt(FloatAdd(beam._label_scores[b][k], beam._blank_scores[b][k]),
                              beam._full_current_lengths[b][k])

\* C7: update_beam reorders every per-beam field by beam_idx before the
\* append: new slot k of item b starts from old slot s = beam_idx[b,k] in
\* every field, and after the append it holds old slot s's history followed
\* by the step's extension.
C7_ReorderedBeforeAppend ==
    call.op = "update_beam" =>
        LET old == call.before
            a   == call.args
            g   == update_beam_reorder(old, a.beam_idx)
        IN  \A b \in BeamItems : \A k \in Beams :
            LET s == a.beam_idx[b][k]
                n == old.current_lengths[b][s]
                f == old._full_current_lengths[b][s]
            IN  /\ g.current_lengths[b][k] = n
                /\ g._full_current_lengths[b][k] = f
                /\ g.transcripts[b][k] = old.transcripts[b][s]
                /\ g.timesteps[b][k] = old.timesteps[b][s]
                /\ g.timesteps_end[b][k] = old.timesteps_end[b][s]
                /\ g._full_transcripts[b][k] = old._full_transcripts[b][s]
                /\ g._full_timesteps[b][k] = old._full_timesteps[b][s]
                /\ g._token_scores[b][k] = old._token_scores[b][s]
                /\ g._total_scores[b][k] = old._total_scores[b][s]
                /\ g._label_scores[b][k] = old._label_scores[b][s]
                /\ g._blank_scores[b][k] = old._blank_scores[b][s]
                /\ g.scores[b][k] = old.scores[b][s]
                /\ g.last_timestep[b][k] = old.last_timestep[b][s]
                /\ g.last_timestep_repetitions[b][k] = old.last_timestep_repetitions[b][s]
                /\ beam.current_lengths[b][k] = n + 1
                /\ beam._full_current_lengths[b][k] = f + a.num_blanks[b][k] + 1
                /\ PrefixKept(beam.transcripts[b][k], old.transcripts[b][s], n)
                /\ PrefixKept(beam.timesteps[b][k], old.timesteps[b][s], n)
                /\ PrefixKept(beam._full_transcripts[b][k], old._full_transcripts[b][s], f)
                /\ PrefixKept(beam._full_timesteps[b][k], old._full_timesteps[b][s], f)
                /\ PrefixKept(beam._token_scores[b][k], old._token_scores[b][s], f)
                /\ call.raised = "none" =>
                    /\ beam._label_scores[b][k] =
                           FloatAdd(old._label_scores[b][s], a.label_logps[b][k])
                    /\ beam._blank_scores[b][k] =
                           FloatAdd(old._blank_scores[b][s], a.blank_logps[b][k])
                    /\ beam.last_timestep[b][k] = old.last_timestep[b][s] + a.num_blanks[b][k]
                    /\ beam.transcripts[b][k][n] = a.labels[b][k]
                    /\ beam._full_transcripts[b][k][f + a.num_blanks[b][k]] = a.labels[b][k]

\* C7 witness: a successful update_beam with beam_idx = [1, 1] on beams whose
\* transcripts and full lengths differ; both new slots continue old slot 1
C7_Witness ==
    /\ call.op = "update_beam"
    /\ call.raised = "none"
    /\ call.args.beam_idx[0][0] = 1
    /\ call.args.beam_idx[0][1] = 1
    /\ call.before.current_lengths[0][1] >= 1
    /\ call.before._full_transcripts[0][0] # call.before._full_transcripts[0][1]
    /\ call.before._full_current_lengths[0][0] # call.before._full_current_lengths[0][1]
    /\ call.args.labels[0][0] # call.args.labels[0][1]

\* C8: in every state of the beam buffer, full_current_length[b,k] is at
\* least current_length[b,k] for every item b and beam k.
C8_FullAtLeastCompacted ==
    \A b \in BeamItems : \A k \in Beams :
        beam._full_current_lengths[b][k] >= beam.current_lengths[b][k]

\* C8 witness: after a clear_, a beam was extended twice and its full trace
\* is longer than its compacted one
C8_Witness ==
    /\ ~clean
    /\ call.op \in {"append_labels", "update_beam"}
    /\ \E b \in BeamItems : \E k \in Beams :
        /\ beam.current_lengths[b][k] >= 2
        /\ beam._full_current_lengths[b][k] > beam.current_lengths[b][k]

\* C9 (as claimed): every append_labels call (alone or inside update_beam)
\* grows the capacity before its writes, so that no write is out of range,
\* full_current_length[b,k] <= capacity afterwards, and the parallel
\* per-beam arrays all have the same capacity.
C9_GrownBeforeWrites ==
    call.op \in {"append_labels", "update_beam"} =>
        /\ call.raised = "none"
        /\ \A b \in BeamItems : \A k \in Beams :
            /\ beam._full_current_lengths[b][k] <= beam._max_length
            /\ Width(beam.transcripts[b][k]) = beam._max_length
            /\ Width(beam.timesteps[b][k]) = beam._max_length
            /\ Width(beam._full_transcripts[b][k]) = beam._max_length
            /\ Width(beam._full_timesteps[b][k]) = beam._max_length
            /\ Width(beam._token_scores[b][k]) = beam._max_length

\* score r is a number and at least the number s
AtLeast(r, s) == r # NaN /\ ~FloatLess(r, s)

\* h is an entry of completed whose score is the maximum over completed (at
\* least every score of completed that is a number), and the first completed
\* one among the entries of that score
FirstMaximum(h, completed) ==
    /\ \A j \in DOMAIN completed :
        completed[j].score = NaN \/ AtLeast(h.score, completed[j].score)
    /\ \E i \in DOMAIN completed :
        /\ h = completed[i]
        /\ \A j \in 1..(i - 1) : completed[j].score # h.score

\* no entry of completed has the score nan
ScoresAreNumbers(completed) == \A j \in DOMAIN completed : completed[j].score # NaN

\* C10 (as claimed): get_best_hyps returns one entry per batch item, in
\* batch order: an entry of best_hyps[b] with the maximal score, the first
\* completed one among those tied for it, and it leaves best_hyps[b] as it
\* was.
C10_BestIsFirstMaximum ==
    (call.op = "get_best_hyps" /\ call.raised = "none") =>
        /\ Len(call.result) = beam.batch_size
        /\ beam = call.before
        /\ \A b \in DOMAIN beam.best_hyps :
            FirstMaximum(call.result[b + 1], beam.best_hyps[b])

\* C10 (amended): get_best_hyps returns one entry per batch item, in batch
\* order, and leaves best_hyps as it was; for every item b none of whose
\* completed scores is nan the entry is one of best_hyps[b] with the maximal
\* score, the first completed one among those tied for it.
C10_BestOfNumbers ==
    (call.op = "get_best_hyps" /\ call.raised = "none") =>
        /\ Len(call.result) = beam.batch_size
        /\ beam = call.before
        /\ \A b \in DOMAIN beam.best_hyps :
            /\ \E i \in DOMAIN beam.best_hyps[b] : call.result[b + 1] = beam.best_hyps[b][i]
            /\ ScoresAreNumbers(beam.best_hyps[b]) =>
                   FirstMaximum(call.result[b + 1], beam.best_hyps[b])

\* C10 witness: get_best_hyps returned for two batch items; item 0 holds
\* three hypotheses without nan, the best score held by the last two, which
\* differ in their labels, and the second is returned; item 1 holds another
\* hypothesis, which is returned for it
C10_Witness ==
    /\ call.op = "get_best_hyps"
    /\ call.raised = "none"
    /\ Len(beam.best_hyps[0]) = 3
    /\ Len(beam.best_hyps[1]) = 1
    /\ ScoresAreNumbers(beam.best_hyps[0])
    /\ FloatLess(beam.best_hyps[0][1].score, beam.best_hyps[0][2].score)
    /\ beam.best_hyps[0][2].score = beam.best_hyps[0][3].score
    /\ beam.best_hyps[0][2].y_sequence # beam.best_hyps[0][3].y_sequence
    /\ call.result[1] = beam.best_hyps[0][2]
    /\ call.result[2] = beam.best_hyps[1][1]
    /\ call.result[2] # call.result[1]

\* C11 (as claimed): get_best_hyps called while best_hyps[b] is empty for
\* some batch item b fails with the dedicated EmptyBeamError and returns no
\* result.
C11_EmptyBeamError ==
    (call.op = "get_best_hyps" /\ \E b \in BeamItems : call.before.best_hyps[b] = <<>>) =>
        /\ call.raised = "EmptyBeamError"
        /\ call.result = <<>>

\* the sizes of the groups of a grouped list
GroupSizes(groups) == [g \in DOMAIN groups |-> Len(groups[g])]

\* the groups of a grouped list laid end to end
RECURSIVE Flatten(_)
Flatten(groups) == IF groups = <<>> THEN <<>> ELSE groups[1] \o Flatten(Tail(groups))

\* the list s cut from position 1 is a maximal run of equal values of
\* length n: the run is constant and the value after it differs
MaximalRun(s, from, n) ==
    /\ n >= 1
    /\ from + n - 1 <= Len(s)
    /\ \A j \in from..(from + n - 1) : s[j] = s[from]
    /\ from + n <= Len(s) => s[from + n] # s[from]

\* sizes are the lengths of the maximal runs of s, in order
RECURSIVE RunSizes(_, _, _)
RunSizes(s, sizes, from) ==
    IF sizes = <<>> THEN from = Len(s) + 1
    ELSE MaximalRun(s, from, sizes[1]) /\ RunSizes(s, Tail(sizes), from + sizes[1])

\* C12: when to_hypotheses is given an alignment buffer that stores
\* alignments, the groups on Hypothesis.alignments of item b are the maximal
\* runs of equal consecutive values of timesteps[b, 0:current_length[b]] in
\* time order; their sizes sum to current_length[b] and their labels laid
\* end to end are labels[b, 0:current_length[b]] (with the stored logits).
C12_GroupsAreMaximalRuns ==
    (returned.called /\ returned.alignments /\ align.with_alignments) =>
        \A p \in DOMAIN returned.value :
            LET groups == returned.value[p].alignments
                n      == align.current_lengths[p - 1]
                flat   == Flatten(groups)
            IN  /\ RunSizes(Slice(align.timesteps[p - 1], n), GroupSizes(groups), 1)
                /\ Len(flat) = n
                /\ [k \in 1..n |-> flat[k][2]] = Slice(align.labels[p - 1], n)
                /\ [k \in 1..n |-> flat[k][1]] = Slice(align.logits[p - 1], n)

\* C12 witness: item 0 holds frames at [0, 0, 2] with labels [blank, 3, blank]
\* and to_hypotheses returned the groups of sizes [2, 1] for it
C12_Witness ==
    /\ returned.called
    /\ returned.alignments
    /\ align.with_alignments
    /\ align.current_lengths[0] = 3
    /\ Slice(align.timesteps[0], 3) = <<0, 0, 2>>
    /\ Slice(align.labels[0], 3) = <<Blank, 3, Blank>>
    /\ GroupSizes(returned.value[1].alignments) = <<2, 1>>

\* every row of a [batch, length] tensor has n entries
RowsOf(t, n) == \A b \in DOMAIN t : Width(t[b]) = n

\* C13: constructing a greedy, alignment or beam buffer with batch_size <= 0
\* or init_length <= 0 raises ValueError and yields no buffer; with both > 0
\* it yields a buffer of that batch size whose current lengths are all 0
\* and whose capacity is init_length.
C13_ConstructorsValidate ==
    built.class # "none" =>
        IF built.batch_size <= 0 \/ built.init_length <= 0
        THEN built.raised = "ValueError" /\ built.object = <<>>
        ELSE /\ built.raised = "none"
             /\ built.object._max_length = built.init_length
             /\ Width(built.object.current_lengths) = built.batch_size
             /\ RowsOf(built.object.timesteps, IF built.class = "BeamBatchedHyps"
                                                THEN built.options[1] ELSE built.init_length)
             /\ built.class \in {"BatchedHyps", "BatchedAlignments"} =>
                    \A b \in 0..(built.batch_size - 1) : built.object.current_lengths[b] = 0
             /\ built.class = "BatchedHyps" => RowsOf(built.object.transcript, built.init_length)
             /\ built.class = "BeamBatchedHyps" =>
                    \A b \in 0..(built.batch_size - 1) : \A k \in 0..(built.options[1] - 1) :
                        /\ built.object.current_lengths[b][k] = 0
                        /\ built.object._full_current_lengths[b][k] = 0
                        /\ Width(built.object.transcripts[b][k]) = built.init_length
                        /\ Width(built.object._full_transcripts[b][k]) = built.init_length

\* C13 witness: BatchedAlignments(batch_size=0, init_length=2) raised ValueError
C13_Witness ==
    /\ built.class = "BatchedAlignments"
    /\ built.batch_size = 0
    /\ built.init_length = 2
    /\ built.raised = "ValueError"

\* C14: to_hypotheses on a greedy buffer of batch size B fails (the assert
\* on its argument) when the requested batch_size exceeds B; for
\* batch_size <= B it returns exactly batch_size hypotheses, those of items
\* 0..batch_size-1 in order, and exactly B when batch_size is omitted.
C14_BatchSizeChecked ==
    returned.called =>
        LET B == Width(hyps.scores)
            n == IF returned.batch_size = NoBatchSize THEN B ELSE returned.batch_size[1]
        IN  IF n > B
            THEN returned.raised = "AssertionError" /\ returned.value = <<>>
            ELSE /\ returned.raised = "none"
                 /\ Len(returned.value) = n
                 /\ \A p \in 1..n :
                        /\ returned.value[p].score = hyps.scores[p - 1]
                        /\ returned.value[p].y_sequence = InRangeLabels(hyps, p - 1)
                        /\ returned.value[p].timestep = InRangeTimesteps(hyps, p - 1)

\* C14 witness: a buffer with different labels on its two items was asked
\* for batch_size = 3 > B = 2 and the call failed
C14_Witness ==
    /\ returned.called
    /\ returned.batch_size = <<BatchSize + 1>>
    /\ returned.raised = "AssertionError"
    /\ hyps.current_lengths[0] = 1
    /\ hyps.current_lengths[1] = 2

\* C16 (as claimed): after to_hypotheses has returned, no later clear_,
\* append or growth of the source buffer changes the label sequence or the
\* timesteps of a returned Hypothesis.
C16_ReturnedImmutable ==
    returned.called =>
        \A p \in DOMAIN returned.value :
            /\ held.value[p].y_sequence = returned.value[p].y_sequence
            /\ held.value[p].timestep = returned.value[p].timestep

\* the length of the trailing run of equal values of a sequence (0 if empty)
TrailingRun(s) ==
    IF Len(s) = 0 THEN 0
    ELSE Len(s) - Max({0} \cup {i \in DOMAIN s : s[i] # s[Len(s)]})

\* an append in which item b was active set the repeat counter and the last
\* frame index of b by the rule of the claim
RepeatRule(b) ==
    Len(appended'[b]) = Len(appended[b]) + 1 =>
        LET t == appended'[b][Len(appended'[b])][2]
        IN  /\ hyps'.last_timestep[b] = t
            /\ hyps'.last_timestep_lasts[b] =
                   IF t = hyps.last_timestep[b] THEN hyps.last_timestep_lasts[b] + 1 ELSE 1

\* C17: on both append paths an active item's repeat counter is incremented
\* when the appended frame index equals the stored last_timestep and is set
\* to 1 (with last_timestep overwritten) otherwise; hence the counter always
\* equals the length of the trailing run of equal frame indices appended for
\* the item since construction or clear (0 if none), and last_timestep is the
\* last appended frame index (-1 if none).
C17_RepeatBookkeeping ==
    /\ [](\A b \in Items :
            /\ hyps.last_timestep_lasts[b] = TrailingRun(AppendedTimes(b))
            /\ hyps.last_timestep[b] =
                   IF Len(appended[b]) = 0 THEN -1 ELSE appended[b][Len(appended[b])][2])
    /\ [][\A b \in Items : RepeatRule(b)]_vars

\* C17 witness: item 0 got frames 2, 2 (counter 2), item 1 got frames 2, 0
\* (counter reset to 1)
C17_Witness ==
    /\ AppendedTimes(0) = <<2, 2>>
    /\ hyps.last_timestep_lasts[0] = 2
    /\ AppendedTimes(1) = <<2, 0>>
    /\ hyps.last_timestep_lasts[1] = 1

\* the per-item counters of item b are the same in buffers new and old
CountersKept(new, old, b) ==
    /\ new.current_lengths[b] = old.current_lengths[b]
    /\ new.scores[b] = old.scores[b]
    /\ new.last_timestep[b] = old.last_timestep[b]
    /\ new.last_timestep_lasts[b] = old.last_timestep_lasts[b]

\* the active items of the last call advanced their write cursor by one
ActiveAdvanced ==
    \A b \in step.u.act : hyps.current_lengths[b] = twin.current_lengths[b] + 1

\* C18 (as claimed): add_results_masked_ leaves an inactive item's counters
\* and every stored entry of its rows of labels and timesteps as they were;
\* active items advance their cursor by exactly 1.
C18_InactiveRowsUntouched ==
    step.op = "add_results_masked_" =>
        /\ ActiveAdvanced
        /\ \A b \in Items \ step.u.act :
              /\ CountersKept(hyps, twin, b)
              /\ \A i \in DOMAIN twin.transcript[b] :
                    /\ hyps.transcript[b][i] = twin.transcript[b][i]
                    /\ hyps.timesteps[b][i] = twin.timesteps[b][i]

\* C18 (amended): add_results_masked_ leaves an inactive item's counters and
\* every stored entry of its rows other than the one at its write cursor as
\* they were, so the entries below current_length are kept; the entry at the
\* cursor receives the label and frame index passed for the item; active
\* items advance their cursor by exactly 1.
C18_InactiveContentUntouched ==
    step.op = "add_results_masked_" =>
        /\ ActiveAdvanced
        /\ \A b \in Items \ step.u.act :
              /\ CountersKept(hyps, twin, b)
              /\ \A i \in DOMAIN twin.transcript[b] :
                    i # twin.current_lengths[b] =>
                        /\ hyps.transcript[b][i] = twin.transcript[b][i]
                        /\ hyps.timesteps[b][i] = twin.timesteps[b][i]
              /\ hyps.transcript[b][twin.current_lengths[b]] = step.u.lab[b]
              /\ hyps.timesteps[b][twin.current_lengths[b]] = step.u.tim[b]

\* C18 witness: a masked append with item 0 active and item 1 inactive, item
\* 1 holding an entry already, wrote beyond the entries of item 1
C18_Witness ==
    /\ step.op = "add_results_masked_"
    /\ step.u.act = {0}
    /\ twin.current_lengths[1] = 1
    /\ hyps.current_lengths[1] = 1
    /\ hyps.current_lengths[0] = twin.current_lengths[0] + 1
    /\ hyps.transcript[1][1] # 0

\* C19: clear_ leaves the capacity and makes the buffer equal to a freshly
\* constructed one of the same batch size and that capacity (lengths, labels,
\* timesteps, scores and repeat counts 0, last_timestep -1), so every later
\* append sequence, a function of this state, behaves as on a fresh buffer.
C19_ClearGivesFreshBuffer ==
    step.op = "clear_" =>
        /\ hyps._max_length = twin._max_length
        /\ hyps = BatchedHyps(BatchSize, twin._max_length)

\* C19 witness: clear_ of a buffer that has grown and holds entries of both
\* items
C19_Witness ==
    /\ step.op = "clear_"
    /\ twin._max_length >= 2
    /\ twin.current_lengths[0] = 2
    /\ twin.current_lengths[1] = 1
    /\ twin.last_timestep[0] # -1
    /\ hyps.current_lengths[0] = 0

\* a sequence is non-decreasing
NonDecreasing(s) == \A i, j \in DOMAIN s : i <= j => s[i] <= s[j]

\* the stored frame indices of item b, timesteps[b, 0:current_length[b]]
StoredTimes(b) == [i \in 1..hyps.current_lengths[b] |-> hyps.timesteps[b][i - 1]]

\* C20 (as claimed): in every reachable state the stored frame indices of
\* every item, timesteps[b, 0:current_length[b]], are non-decreasing.
C20_TimestepsMonotonic ==
    \A b \in Items : NonDecreasing(StoredTimes(b))

\* C20 (amended): the stored frame indices of every item are the frame
\* indices passed for it in the appends since construction or the last clear,
\* in append order; they are non-decreasing whenever the passed ones were.
C20_TimestepsAsAppended ==
    \A b \in Items :
        /\ StoredTimes(b) = AppendedTimes(b)
        /\ NonDecreasing(AppendedTimes(b)) => NonDecreasing(StoredTimes(b))

\* C20 witness: frames 0, 2, 2 were appended for item 0 and are stored in
\* that order in the grown buffer
C20_Witness ==
    /\ AppendedTimes(0) = <<0, 2, 2>>
    /\ StoredTimes(0) = <<0, 2, 2>>
    /\ hyps._max_length >= 4

\* the last call recorded one frame for every active item and none for the
\* others
FrameRecorded ==
    \A b \in Items :
        /\ align'.current_lengths[b] =
               align.current_lengths[b] + (IF b \in step'.act THEN 1 ELSE 0)
        /\ b \in step'.act =>
               align'.timesteps[b][align.current_lengths[b]] = step'.tim[b]
        /\ align'.current_lengths[b] <= align'._max_length
        /\ Width(align'.timesteps[b]) = align'._max_length

\* C21: add_results_ and add_results_masked_ of the alignment buffer record
\* one frame per active item whatever the label and whichever optional
\* tensors are passed: an active item's current_length grows by exactly 1
\* and the frame index is stored at its old cursor, an inactive item's
\* current_length is unchanged, and afterwards current_length <= capacity;
\* neither call raises.
C21_FramePerActiveItem ==
    [][step'.op \in {"add_results_", "add_results_masked_"} =>
           /\ error' = "none"
           /\ FrameRecorded]_vars

\* C21 witness: a masked call without any optional tensor recorded a second
\* frame for item 0 in a buffer that stores alignments and had to grow
C21_Witness ==
    /\ step.op = "add_results_masked_"
    /\ step.passed = {}
    /\ step.act = {0}
    /\ align.with_alignments
    /\ align.current_lengths[0] = 2
    /\ align._max_length >= 2
    /\ align.timesteps[0][1] = step.tim[0]

\* the last call, an append_labels, extended beam (b, k) by its label after
\* num_blanks frames whose full-trace entries hold one of placeholders
ExtendedBy(b, k, placeholders) ==
    LET old == call.before
        a   == call.args
        n   == old.current_lengths[b][k]
        f   == old._full_current_lengths[b][k]
        nb  == a.num_blanks[b][k]
    IN  /\ beam.current_lengths[b][k] = n + 1
        /\ n \in DOMAIN beam.transcripts[b][k]
        /\ beam.transcripts[b][k][n] = a.labels[b][k]
        /\ beam._full_current_lengths[b][k] = f + nb + 1
        /\ f + nb \in DOMAIN beam._full_transcripts[b][k]
        /\ beam._full_transcripts[b][k][f + nb] = a.labels[b][k]
        /\ beam._token_scores[b][k][f + nb] = a.label_logps[b][k]
        /\ \A i \in f..(f + nb - 1) :
              /\ beam._full_transcripts[b][k][i] \in placeholders
              /\ beam._token_scores[b][k][i] = a.blank_logps_per_blank[b][k][i - f]

\* C22 (as claimed): append_labels adds one label to every beam:
\* current_length grows by 1 with the label last, full_current_length by
\* num_blanks + 1 with the label last and placeholders before it, and
\* token_scores holds the per-blank scores at the placeholders and the
\* label's log-probability at the label.  A placeholder is taken to be the
\* claimed zero or the blank id the full trace is filled with, so that only
\* a beam that is not extended violates the statement.
C22_EveryBeamExtended ==
    call.op = "append_labels" =>
        \A b \in BeamItems : \A k \in Beams : ExtendedBy(b, k, {0, blank_tensor})

\* C23: after one returned append_labels call on a freshly constructed beam
\* buffer, score[b,k] of every beam is (label_logps[b,k] + blank_logps[b,k])
\* divided by the resulting full_current_length[b,k]; with label_logps -0.5,
\* blank_logps -0.1 and full_current_length 1 it is -0.6.
C23_FirstScore ==
    (/\ call.op = "append_labels"
     /\ call.raised = "none"
     /\ call.before = BeamBatchedHyps(BeamBatch, BeamSize, call.before._max_length)) =>
        \A b \in BeamItems : \A k \in Beams :
            /\ beam.scores[b][k] =
                   FloatDivInt(FloatAdd(call.args.label_logps[b][k], call.args.blank_logps[b][k]),
                             beam._full_current_lengths[b][k])
            /\ (/\ call.args.label_logps[b][k] = Float32(-1, 2)
                /\ call.args.blank_logps[b][k] = Float32(-1, 10)
                /\ beam._full_current_lengths[b][k] = 1) => beam.scores[b][k] = Float32(-3, 5)

\* C23 witness: the first call gave beam 0 the label with log-probability
\* -0.5 after blanks of -0.1 (none counted) and beam 1 a label after one
\* blank frame
C23_Witness ==
    /\ call.op = "append_labels"
    /\ call.raised = "none"
    /\ call.before = BeamBatchedHyps(BeamBatch, BeamSize, call.before._max_length)
    /\ call.args.label_logps[0][0] = Float32(-1, 2)
    /\ call.args.blank_logps[0][0] = Float32(-1, 10)
    /\ beam._full_current_lengths[0][0] = 1
    /\ beam.scores[0][0] = Float32(-3, 5)
    /\ beam._full_current_lengths[0][1] = 2

\* C24 (as claimed): every Hypothesis add_completed stores ends with the
\* terminal label and has a timesteps sequence as long as its label
\* sequence (the timesteps counted along the one row of the [1, n] tensor).
C24_SequencesSameLength ==
    \A b \in BeamItems : \A i \in DOMAIN beam.best_hyps[b] :
        LET h == beam.best_hyps[b][i]
        IN  /\ Len(h.timestep) = 1
            /\ Len(h.y_sequence) = Len(h.timestep[1])
            /\ h.y_sequence[Len(h.y_sequence)] \in {e.label : e \in Extensions}

\* the extension whose terminal label ends the label sequence of h
ExtensionOf(h) == CHOOSE e \in Extensions : e.label = h.y_sequence[Len(h.y_sequence)]

\* h is the hypothesis add_completed builds for slot s of item b of buffer
\* old, and its score is the one append_labels gives that slot for the same
\* extension
ScoredAsAppended(h, old, b, s) ==
    LET a == CallArgs([x \in BeamItems |-> [k \in Beams |-> ExtensionOf(h)]],
                      IdentityBeams, AllInactive)
        r == append_labels(old, a.labels, a.label_logps, a.blank_logps,
                           a.blank_logps_per_blank, a.num_blanks)
    IN  /\ h = add_completed_hypothesis(old, b, s, a.labels, a.label_logps, a.blank_logps,
                                        a.num_blanks, a.blank_logps_per_blank)
        /\ r.raised = "none" => h.score = r.obj.scores[b][s]

\* C25 (as claimed): the score of every Hypothesis add_completed stores equals
\* the score the beam's slot would hold after append_labels with the same
\* extension (label_logp, blank_logp, num_blanks).
C25_SameScoreAsAppend ==
    call.op = "add_completed" =>
        \A b \in BeamItems :
            \A i \in (Len(call.before.best_hyps[b]) + 1)..Len(beam.best_hyps[b]) :
                \E s \in Beams : ScoredAsAppended(beam.best_hyps[b][i], call.before, b, s)

\* C26 (as claimed): a beam slot for which add_completed has stored a
\* hypothesis is retired: no later append_labels or update_beam makes its
\* compacted or full length grow, and the stored hypothesis stays in
\* best_hyps.
C26_FinalizedBeamRetired ==
    \A b \in BeamItems : \A k \in Beams :
        step.u[b][k] # <<>> =>
            /\ beam.current_lengths[b][k] = step.u[b][k][1]
            /\ beam._full_current_lengths[b][k] = step.u[b][k][2]
            /\ beam.best_hyps[b] # <<>>

\* C27 (as claimed): append_labels and update_beam called with labels,
\* label_logps, blank_logps or num_blanks of a shape other than [B, K] fail
\* with an error and leave every field of the beam buffer as it was.
C27_MalformedCallAtomic ==
    (call.op \in {"append_labels", "update_beam"} /\ call.result # <<>>) =>
        /\ call.raised # "none"
        /\ beam = call.before

\* the entries of the sequence s other than the blank placeholder, in order
NonBlankEntries(s) == SelectSeq(s, LAMBDA x : x # blank_tensor)

\* transcript[b, k, 0:current_length[b, k]]
CompactedTranscript(b, k) == Slice(beam.transcripts[b][k], beam.current_lengths[b][k])

\* full_transcript[b, k, 0:full_current_length[b, k]]
FullTrace(b, k) == Slice(beam._full_transcripts[b][k], beam._full_current_lengths[b][k])

\* C28 (as claimed): in every state reached from construction by append_labels
\* and update_beam, the compacted transcript of every beam is the subsequence
\* of the non-blank entries of its full trace, in order, and current_length
\* is the number of those entries.
C28_CompactedIsNonBlankTrace ==
    \A b \in BeamItems, k \in Beams :
        /\ CompactedTranscript(b, k) = NonBlankEntries(FullTrace(b, k))
        /\ Len(NonBlankEntries(FullTrace(b, k))) = beam.current_lengths[b][k]

\* the list positions 0 .. beam_size - 1 of beam_idx[b], in encounter order
BeamPositions == [j \in 1..BeamSize |-> j - 1]

\* the hypotheses the claim expects add_completed to append for item b: one
\* per position j whose selected beam s = beam_idx[b, j] has
\* became_inactive_logps[b, s] different from -inf, built from beam s
ClaimedCompleted(b) ==
    LET a == call.args
        chosen == SelectSeq(BeamPositions,
                      LAMBDA j : a.became_inactive_logps[b][a.beam_idx[b][j]] # NegInf)
    IN  [i \in 1..Len(chosen) |->
            add_completed_hypothesis(call.before, b, a.beam_idx[b][chosen[i]], a.labels,
                                     a.label_logps, a.blank_logps, a.num_blanks,
                                     a.blank_logps_per_blank)]

\* C29 (as claimed): one add_completed call appends to completed[b] exactly
\* one hypothesis per position j of beam_idx[b], in encounter order, whose
\* selected beam s = beam_idx[b, j] has became_inactive_logps[b, s] different
\* from -inf, built from the trace, label and scores of beam s, and none for
\* any other beam; no other field of the buffer is modified.
C29_CompletedPerInactiveBeam ==
    call.op = "add_completed" =>
        /\ \A b \in BeamItems :
              beam.best_hyps[b] = call.before.best_hyps[b] \o ClaimedCompleted(b)
        /\ [beam EXCEPT !.best_hyps = call.before.best_hyps] = call.before

\* C30 (as claimed): after clear_ every per-beam field of the beam buffer
\* equals its value in a freshly constructed buffer of the same batch size,
\* beam width and current capacity, and completed[b] is empty for every b.
C30_BeamClearGivesFreshBuffer ==
    call.op = "clear_" =>
        beam = BeamBatchedHyps(BeamBatch, BeamSize, call.before._max_length)

====
